---- MODULE Spec2Model ----
(***************************************************************************)
(* Grading Consistency Engine: the result parser (src/grading/scorer.py)   *)
(* and the multi-pass orchestrator (src/grading/engine.py).                *)
(*                                                                         *)
(* Points are exact decimals in the code (decimal.Decimal).  The model     *)
(* writes a decimal as an integer number of tenths, so 3 stands for 0.3    *)
(* and 1000 for 100.0; sums and comparisons of tenths are exact, as they   *)
(* are for Decimal.  Where the code converts to Python floats (the median  *)
(* selection and the variance), the model computes with IEEE-754 binary64  *)
(* values, correctly rounded to nearest-even, on multi-limb naturals.      *)
(***************************************************************************)
EXTENDS Integers, Sequences, FiniteSets, TLC

(***************************************************************************)
(* Multi-limb naturals: little-endian sequences of limbs below LimbBase,   *)
(* without leading zero limbs (<<>> is zero).                              *)
(***************************************************************************)
LimbBits == 15
LimbBase == 2^LimbBits

Limb(n, i) == IF i <= Len(n) THEN n[i] ELSE 0

RECURSIVE BTrim(_)
BTrim(n) ==
    IF Len(n) > 0 /\ n[Len(n)] = 0 THEN BTrim(SubSeq(n, 1, Len(n) - 1)) ELSE n

BFromNat(k) ==
    BTrim(<<k % LimbBase, (k \div LimbBase) % LimbBase, k \div (LimbBase * LimbBase)>>)

RECURSIVE BAddC(_, _, _, _)
BAddC(a, b, i, c) ==
    IF i > Len(a) /\ i > Len(b)
    THEN (IF c = 0 THEN <<>> ELSE <<c>>)
    ELSE LET s == Limb(a, i) + Limb(b, i) + c
         IN  <<s % LimbBase>> \o BAddC(a, b, i + 1, s \div LimbBase)

BAdd(a, b) == BAddC(a, b, 1, 0)

\* a - b for a >= b
RECURSIVE BSubC(_, _, _, _)
BSubC(a, b, i, c) ==
    IF i > Len(a)
    THEN <<>>
    ELSE LET s == Limb(a, i) - Limb(b, i) - c
         IN  IF s < 0
             THEN <<s + LimbBase>> \o BSubC(a, b, i + 1, 1)
             ELSE <<s>> \o BSubC(a, b, i + 1, 0)

BSub(a, b) == BTrim(BSubC(a, b, 1, 0))

\* -1, 0, 1 as a < b, a = b, a > b; limbs compared from the top one down to i
RECURSIVE BCmpFrom(_, _, _)
BCmpFrom(a, b, i) ==
    IF i = 0 THEN 0
    ELSE IF a[i] < b[i] THEN -1
    ELSE IF a[i] > b[i] THEN 1
    ELSE BCmpFrom(a, b, i - 1)

BCmp(a, b) ==
    IF Len(a) < Len(b) THEN -1
    ELSE IF Len(a) > Len(b) THEN 1
    ELSE BCmpFrom(a, b, Len(a))

RECURSIVE BMulC(_, _, _, _)
BMulC(a, k, i, c) ==
    IF i > Len(a)
    THEN (IF c = 0 THEN <<>> ELSE <<c>>)
    ELSE LET s == a[i] * k + c
         IN  <<s % LimbBase>> \o BMulC(a, k, i + 1, s \div LimbBase)

\* a * k for 0 <= k < LimbBase
BMulSmall(a, k) == BTrim(BMulC(a, k, 1, 0))

RECURSIVE BShl(_, _)
BShl(a, k) ==
    IF a = <<>> THEN <<>>
    ELSE IF k >= LimbBits THEN <<0>> \o BShl(a, k - LimbBits)
    ELSE BMulSmall(a, 2^k)

RECURSIVE BShr(_, _)
BShr(a, k) ==
    IF a = <<>> THEN <<>>
    ELSE IF k >= LimbBits THEN BShr(Tail(a), k - LimbBits)
    ELSE BTrim([i \in 1..Len(a) |->
                  (a[i] \div 2^k) + (Limb(a, i + 1) % 2^k) * 2^(LimbBits - k)])

\* bit j of a, the lowest bit being bit 0
BBit(a, j) == (Limb(a, (j \div LimbBits) + 1) \div 2^(j % LimbBits)) % 2

\* some bit of a below bit j is set
BLowBitsSet(a, j) == BShl(BShr(a, j), j) # a

RECURSIVE BitLen(_)
BitLen(x) == IF x = 0 THEN 0 ELSE 1 + BitLen(x \div 2)

BBitLen(a) == IF a = <<>> THEN 0 ELSE LimbBits * (Len(a) - 1) + BitLen(a[Len(a)])

(***************************************************************************)
(* Python float: a non-negative IEEE-754 binary64 value m * 2^e with the   *)
(* significand m of exactly MantBits bits (zero is m = <<>>, e = 0).       *)
(* The values of the model stay far from the overflow and the subnormal    *)
(* range, so the exponent is unbounded here.                               *)
(***************************************************************************)
MantBits == 53

FZero == [m |-> <<>>, e |-> 0]

\* A significand r of MantBits or MantBits + 1 bits brought to MantBits bits
Normalize(r, e) ==
    IF BBitLen(r) > MantBits THEN [m |-> BShr(r, 1), e |-> e + 1] ELSE [m |-> r, e |-> e]

\* Round to nearest, ties to even: q is the value cut to MantBits bits, half the
\* first bit cut off, rest whether anything is set below it
RoundCut(q, e, half, rest) ==
    Normalize(IF half /\ (rest \/ BBit(q, 0) = 1) THEN BAdd(q, <<1>>) ELSE q, e)

\* n of len bits rounded to MantBits bits
RoundBits(n, e, sticky, len) ==
    IF len = 0 THEN FZero
    ELSE IF len <= MantBits
    THEN [m |-> BShl(n, MantBits - len), e |-> e - (MantBits - len)]
    ELSE RoundCut(BShr(n, len - MantBits), e + (len - MantBits),
                  BBit(n, len - MantBits - 1) = 1,
                  sticky \/ BLowBitsSet(n, len - MantBits - 1))

\* The binary64 nearest to (n + f) * 2^e, ties to even, where 0 < f < 1 when
\* sticky and f = 0 otherwise (sticky only with n of more than MantBits + 1 bits).
Round53(n, e, sticky) == RoundBits(n, e, sticky, BBitLen(n))

\* float(k) for an int 0 <= k < 2^31: exact
FFromNat(k) == Round53(BFromNat(k), 0, FALSE)

FLess(a, b) ==
    IF b.m = <<>> THEN FALSE
    ELSE IF a.m = <<>> THEN TRUE
    ELSE IF a.e # b.e THEN a.e < b.e
    ELSE BCmp(a.m, b.m) < 0

MinOf(i, j) == IF i < j THEN i ELSE j

\* x * 2^e + y * 2^e
AddAligned(x, y, e) == Round53(BAdd(x, y), e, FALSE)

\* a + b
FAdd(a, b) ==
    IF a.m = <<>> THEN b
    ELSE IF b.m = <<>> THEN a
    ELSE AddAligned(BShl(a.m, a.e - MinOf(a.e, b.e)), BShl(b.m, b.e - MinOf(a.e, b.e)),
                    MinOf(a.e, b.e))

\* abs(x * 2^e - y * 2^e)
AbsDiffAligned(x, y, e) ==
    Round53(IF BCmp(x, y) >= 0 THEN BSub(x, y) ELSE BSub(y, x), e, FALSE)

\* abs(a - b)
FAbsDiff(a, b) ==
    IF a.m = <<>> THEN b
    ELSE IF b.m = <<>> THEN a
    ELSE AbsDiffAligned(BShl(a.m, a.e - MinOf(a.e, b.e)),
                        BShl(b.m, b.e - MinOf(a.e, b.e)), MinOf(a.e, b.e))

\* a / 2: exact
FHalf(a) == IF a.m = <<>> THEN a ELSE [m |-> a.m, e |-> a.e - 1]

\* a * 100
FMul100(a) == Round53(BMulSmall(a.m, 100), a.e, FALSE)

\* One quotient limb of the long division: the largest q with q * d <= r, for
\* r < d * LimbBase and d with its top limb at least LimbBase / 2.  The estimate
\* from the top limbs is never too small and at most 2 too large.
RECURSIVE FixDigit(_, _, _)
FixDigit(r, d, q) ==
    IF BCmp(BMulSmall(d, q), r) > 0 THEN FixDigit(r, d, q - 1) ELSE q

TopLimbs(r, d) ==
    IF Len(r) > Len(d) THEN r[Len(r)] * LimbBase + r[Len(r) - 1] ELSE r[Len(r)]

QuotDigit(r, d) ==
    IF BCmp(r, d) < 0 THEN 0
    ELSE FixDigit(r, d, MinOf(TopLimbs(r, d) \div d[Len(d)], LimbBase - 1))

\* The quotient limbs below with one more limb on top of them
PushDigit(lower, q) == [q |-> Append(lower.q, q), r |-> lower.r]

\* Long division of the limbs num[1..i] with the remainder r carried in from the
\* limbs above: the quotient limbs for positions 1..i and the final remainder.
RECURSIVE LongDiv(_, _, _, _)
RECURSIVE LongDivStep(_, _, _, _)
RECURSIVE LongDivDigit(_, _, _, _, _)
LongDiv(num, d, i, r) ==
    IF i = 0 THEN [q |-> <<>>, r |-> r]
    ELSE LongDivStep(num, d, i, BTrim(<<num[i]>> \o r))

\* with r1 the remainder carried in and limb i brought down
LongDivStep(num, d, i, r1) ==
    IF BCmp(r1, d) < 0 THEN PushDigit(LongDiv(num, d, i - 1, r1), 0)
    ELSE LongDivDigit(num, d, i, r1, QuotDigit(r1, d))

\* with qd the quotient limb of position i
LongDivDigit(num, d, i, r1, qd) ==
    IF qd = 0 THEN PushDigit(LongDiv(num, d, i - 1, r1), 0)
    ELSE PushDigit(LongDiv(num, d, i - 1, BSub(r1, BMulSmall(d, qd))), qd)

DivLimbs(num, d) == LongDiv(num, d, Len(num), <<>>)

RoundQuotient(res, e) == Round53(BTrim(res.q), e, res.r # <<>>)

\* a / b for b # 0: the quotient of the significands to 4 limbs below the
\* binary point (the divisor shifted to fill its top limb), rounded once
FDiv(a, b) ==
    IF a.m = <<>> THEN FZero
    ELSE RoundQuotient(DivLimbs(BShl(a.m, 8 * LimbBits - MantBits),
                                BShl(b.m, 4 * LimbBits - MantBits)),
                       a.e - b.e - 4 * LimbBits)

\* float(Decimal) of the decimal written as v tenths (v >= 0): the binary64
\* nearest to v / 10
DecimalToFloat(v) == FDiv(FFromNat(v), FFromNat(10))

(***************************************************************************)
(* Names are sequences of one-character strings, so that str.lower() and   *)
(* the substring test of the partial match are computed, not assumed.      *)
(***************************************************************************)
UpperCase == <<"A", "B", "C", "D", "E", "F", "G", "H", "I", "J", "K", "L", "M",
               "N", "O", "P", "Q", "R", "S", "T", "U", "V", "W", "X", "Y", "Z">>
LowerCase == <<"a", "b", "c", "d", "e", "f", "g", "h", "i", "j", "k", "l", "m",
               "n", "o", "p", "q", "r", "s", "t", "u", "v", "w", "x", "y", "z">>

\* The lower-case letter of each upper-case letter
LowerOf == [c \in {UpperCase[i] : i \in 1..26} |->
              LowerCase[CHOOSE i \in 1..26 : UpperCase[i] = c]]

LowerChar(c) == IF c \in DOMAIN LowerOf THEN LowerOf[c] ELSE c

\* str.lower()
Lower(s) == [i \in 1..Len(s) |-> LowerChar(s[i])]

\* s in t, for strings
IsSubstring(s, t) ==
    \E i \in 0..(Len(t) - Len(s)) : SubSeq(t, i + 1, i + Len(s)) = s

SumSeq(f, n) == LET RECURSIVE S(_)
                    S(k) == IF k = 0 THEN 0 ELSE f[k] + S(k - 1)
                IN  S(n)

(***************************************************************************)
(* Rubric (src/models.py): a title and a non-empty sequence of criteria,   *)
(* each with a name, a description and max_points > 0; the model validator *)
(* rejects two criteria with the same name, compared as written.           *)
(***************************************************************************)
MaxCriteria == 2
RubricTitle == <<"E", "s", "s", "a", "y">>

RubricCriterion(name, description, max_points) ==
    [name |-> name, description |-> description, max_points |-> max_points]

\* The description of the criteria of the rubrics graded: "Clear thesis"
ClearThesis == <<"C", "l", "e", "a", "r", " ", "t", "h", "e", "s", "i", "s">>

\* The criteria rubrics are made of: two names that differ in case only, and
\* one that contains another
RubricCriteria ==
    {RubricCriterion(<<"a">>, ClearThesis, 10),
     RubricCriterion(<<"A">>, ClearThesis, 20),
     RubricCriterion(<<"a", "b">>, ClearThesis, 20)}

validate_no_duplicate_names(criteria) ==
    LET names == {criteria[i].name : i \in 1..Len(criteria)}
    IN  Cardinality(names) = Len(criteria)

Rubrics ==
    { [title |-> RubricTitle, criteria |-> cs] :
        cs \in { c \in UNION { [1..n -> RubricCriteria] : n \in 1..MaxCriteria } :
                  validate_no_duplicate_names(c) } }

total_max_points(rubric) ==
    SumSeq([i \in 1..Len(rubric.criteria) |-> rubric.criteria[i].max_points],
           Len(rubric.criteria))

(***************************************************************************)
(* JSON values in a number position: a finite number (in tenths), the NaN  *)
(* literal that json.loads accepts, a value that is no number (a word,     *)
(* null, true), or no such key in the object.                              *)
(***************************************************************************)
Num(v)     == [t |-> "num", v |-> v]
NaNValue   == [t |-> "nan", v |-> 0]
NonNumeric == [t |-> "text", v |-> 0]
Absent     == [t |-> "absent", v |-> 0]

\* A string-valued key that the object does not have
NoKey == "<absent>"

(***************************************************************************)
(* Result types (src/models.py).                                           *)
(***************************************************************************)
\* CriterionResult.validate_points_range and the ge=0 of awarded_points
validate_points_range(max_points, awarded_points) ==
    awarded_points >= 0 /\ awarded_points <= max_points

CriterionResult(criterion_name, max_points, awarded_points, justification) ==
    [criterion_name |-> criterion_name, max_points |-> max_points,
     awarded_points |-> awarded_points, justification |-> justification]

\* GradingResult as the parser builds it: one pass, no variance, not flagged
GradingResult(submission_id, rubric_title, criteria_results, overall_feedback) ==
    [submission_id |-> submission_id, rubric_title |-> rubric_title,
     criteria_results |-> criteria_results, overall_feedback |-> overall_feedback,
     llm_passes_used |-> 1, variance_detected |-> FALSE,
     flagged_for_review |-> FALSE]

NoResult ==
    [submission_id |-> 0, rubric_title |-> <<>>, criteria_results |-> <<>>,
     overall_feedback |-> "", llm_passes_used |-> 0, variance_detected |-> FALSE,
     flagged_for_review |-> FALSE]

\* GradingResult.total_awarded
total_awarded(result) ==
    SumSeq([i \in 1..Len(result.criteria_results) |->
              result.criteria_results[i].awarded_points],
           Len(result.criteria_results))

\* GradingResult.total_max
total_max(result) ==
    SumSeq([i \in 1..Len(result.criteria_results) |->
              result.criteria_results[i].max_points],
           Len(result.criteria_results))

(***************************************************************************)
(* ResponseParser (src/grading/scorer.py).  A completion is its text, as a *)
(* sequence of tokens, and the members of the JSON object written in it:   *)
(*   "F" a ``` fence      "{" "}" braces      "J" the members of the       *)
(*   object     "n" a JSON scalar (a number)     "w" any other prose.      *)
(***************************************************************************)
Tokens == {"F", "{", "}", "J", "n", "w"}

Outcome(kind, err, result, raw) ==
    [kind |-> kind, err |-> err, result |-> result, raw |-> raw]

\* ScoringError(message, raw_response=response)
ScoringError(err, raw) == Outcome("ScoringError", err, NoResult, raw)

\* An exception of another class leaving the parser
Escapes(class, raw) == Outcome(class, "", NoResult, raw)

\* The brace scan of _extract_json from position i at the given depth: the
\* position of the brace that closes the object opened at the start, or 0
RECURSIVE CloseOf(_, _, _)
CloseOf(text, i, depth) ==
    IF i > Len(text) THEN 0
    ELSE IF text[i] = "{" THEN CloseOf(text, i + 1, depth + 1)
    ELSE IF text[i] = "}"
         THEN (IF depth = 1 THEN i ELSE CloseOf(text, i + 1, depth - 1))
    ELSE CloseOf(text, i + 1, depth)

\* _extract_json up to json.loads: the text handed to json.loads, or the error
ExtractText(text) ==
    LET fences == {i \in 1..Len(text) : text[i] = "F"}
        open   == CHOOSE i \in fences : \A j \in fences : i <= j
        close  == CHOOSE i \in fences \ {open} : \A j \in fences \ {open} : i <= j
        braces == {i \in 1..Len(text) : text[i] = "{"}
        start  == CHOOSE i \in braces : \A j \in braces : i <= j
    IN  IF Cardinality(fences) >= 2
        THEN [err |-> "", json |-> SubSeq(text, open + 1, close - 1)]
        ELSE IF braces = {}
        THEN [err |-> "No JSON object found", json |-> <<>>]
        ELSE IF CloseOf(text, start, 0) = 0
        THEN [err |-> "Unclosed JSON object", json |-> <<>>]
        ELSE [err |-> "", json |-> SubSeq(text, start, CloseOf(text, start, 0))]

\* json.loads: the kind of value decoded, or "invalid" (JSONDecodeError)
JsonLoads(json) ==
    IF json = <<"{", "J", "}">> THEN "object"
    ELSE IF json = <<"{", "}">> THEN "empty object"
    ELSE IF json = <<"n">> THEN "scalar"
    ELSE "invalid"

\* _parse_decimal: Decimal(str(value)); ok is FALSE for the ScoringError
_parse_decimal(value) ==
    IF value.t = "num" THEN [ok |-> TRUE, nan |-> FALSE, v |-> value.v]
    ELSE IF value.t = "nan" THEN [ok |-> TRUE, nan |-> TRUE, v |-> 0]
    ELSE [ok |-> FALSE, nan |-> FALSE, v |-> 0]

\* rubric_lookup = {c.name.lower(): c for c in rubric.criteria}: a dict keeps a
\* key at the place of its first insertion and the value of its last one
rubric_lookup(rubric) ==
    LET cs       == rubric.criteria
        key(i)   == Lower(cs[i].name)
        first(i) == \A j \in 1..(i - 1) : key(j) # key(i)
        last(i)  == CHOOSE j \in i..Len(cs) :
                        key(j) = key(i) /\ \A k \in (j + 1)..Len(cs) : key(k) # key(i)
        idx      == SelectSeq([i \in 1..Len(cs) |-> i], first)
    IN  [j \in 1..Len(idx) |-> [key |-> key(idx[j]), criterion |-> cs[last(idx[j])]]]

\* The entry of the lookup a reported name resolves to: the exact key, else the
\* first entry whose key contains the name or is contained in it, else 0
Resolve(criterion_name, lookup) ==
    LET name    == Lower(criterion_name)
        exact   == {j \in 1..Len(lookup) : lookup[j].key = name}
        partial == {j \in 1..Len(lookup) :
                      IsSubstring(lookup[j].key, name) \/ IsSubstring(name, lookup[j].key)}
    IN  IF exact # {} THEN CHOOSE j \in exact : TRUE
        ELSE IF partial # {} THEN CHOOSE j \in partial : \A k \in partial : j <= k
        ELSE 0

\* The loop body that looks for a duplicate after the other checks of the
\* entry
ParseItemDuplicateLast(item, lookup, seen, raw) ==
    IF ~item.obj THEN ScoringError("Each criterion result must be an object", raw)
    ELSE IF item.criterion = <<>> THEN ScoringError("Missing criterion name", raw)
    ELSE LET j == Resolve(item.criterion, lookup)
         IN
    IF j = 0 THEN ScoringError("Unknown criterion", raw)
    ELSE LET key        == Lower(lookup[j].criterion.name)
             max_points == lookup[j].criterion.max_points
             awarded    == _parse_decimal(IF item.awarded_points.t = "absent"
                                          THEN Num(0) ELSE item.awarded_points)
         IN
    IF ~awarded.ok THEN ScoringError("Invalid numeric value for awarded_points", raw)
    ELSE IF awarded.nan THEN Escapes("InvalidOperation", raw)
    ELSE IF awarded.v < 0 THEN ScoringError("Negative points", raw)
    ELSE IF awarded.v > max_points THEN ScoringError("Points exceed max", raw)
    ELSE IF item.justification = "" THEN ScoringError("Missing justification", raw)
    ELSE IF key \in seen THEN ScoringError("Duplicate criterion", raw)
    ELSE IF ~validate_points_range(max_points, awarded.v)
    THEN Escapes("ValidationError", raw)
    ELSE [kind |-> "appended", err |-> "", raw |-> raw, key |-> key,
          result |-> CriterionResult(lookup[j].criterion.name, max_points,
                                     awarded.v, item.justification)]

\* The loop body without the range checks on the points, building the result
\* without validation
ParseItemUnchecked(item, lookup, seen, raw) ==
    IF ~item.obj THEN ScoringError("Each criterion result must be an object", raw)
    ELSE IF item.criterion = <<>> THEN ScoringError("Missing criterion name", raw)
    ELSE LET j == Resolve(item.criterion, lookup)
         IN
    IF j = 0 THEN ScoringError("Unknown criterion", raw)
    ELSE LET key     == Lower(lookup[j].criterion.name)
             awarded == _parse_decimal(IF item.awarded_points.t = "absent"
                                       THEN Num(0) ELSE item.awarded_points)
         IN
    IF key \in seen THEN ScoringError("Duplicate criterion", raw)
    ELSE IF ~awarded.ok THEN ScoringError("Invalid numeric value for awarded_points", raw)
    ELSE IF awarded.nan THEN Escapes("InvalidOperation", raw)
    ELSE IF item.justification = "" THEN ScoringError("Missing justification", raw)
    ELSE [kind |-> "appended", err |-> "", raw |-> raw, key |-> key,
          result |-> CriterionResult(lookup[j].criterion.name,
                                     lookup[j].criterion.max_points,
                                     awarded.v, item.justification)]

\* The body of the loop of _parse_criteria_results for one entry: the error it
\* raises, or the criterion result it appends and the key it marks as seen
ParseItem(item, lookup, seen, raw) ==
    IF ~item.obj THEN ScoringError("Each criterion result must be an object", raw)
    ELSE IF item.criterion = <<>> THEN ScoringError("Missing criterion name", raw)
    ELSE LET j == Resolve(item.criterion, lookup)
         IN
    IF j = 0 THEN ScoringError("Unknown criterion", raw)
    ELSE LET key        == Lower(lookup[j].criterion.name)
             max_points == lookup[j].criterion.max_points
             awarded    == _parse_decimal(IF item.awarded_points.t = "absent"
                                          THEN Num(0) ELSE item.awarded_points)
         IN
    IF key \in seen THEN ScoringError("Duplicate criterion", raw)
    ELSE IF ~awarded.ok THEN ScoringError("Invalid numeric value for awarded_points", raw)
    ELSE IF awarded.nan THEN Escapes("InvalidOperation", raw)
    ELSE IF awarded.v < 0 THEN ScoringError("Negative points", raw)
    ELSE IF awarded.v > max_points THEN ScoringError("Points exceed max", raw)
    ELSE IF item.justification = "" THEN ScoringError("Missing justification", raw)
    ELSE IF ~validate_points_range(max_points, awarded.v)
    THEN Escapes("ValidationError", raw)
    ELSE [kind |-> "appended", err |-> "", raw |-> raw, key |-> key,
          result |-> CriterionResult(lookup[j].criterion.name, max_points,
                                     awarded.v, item.justification)]

\* The loop of _parse_criteria_results from entry i on, then the check that
\* every key of the lookup was seen
RECURSIVE ParseItems(_, _, _, _, _, _)
ParseItems(items, lookup, i, results, seen, raw) ==
    IF i > Len(items)
    THEN IF {lookup[j].key : j \in 1..Len(lookup)} \ seen # {}
         THEN ScoringError("Missing scores for criteria", raw)
         ELSE [kind |-> "parsed", err |-> "", raw |-> raw, result |-> results]
    ELSE LET one == ParseItem(items[i], lookup, seen, raw)
         IN  IF one.kind # "appended" THEN one
             ELSE ParseItems(items, lookup, i + 1, Append(results, one.result),
                             seen \cup {one.key}, raw)

_parse_criteria_results(results_data, rubric, raw) ==
    IF results_data.t # "list" THEN ScoringError("criteria_results must be a list", raw)
    ELSE ParseItems(results_data.items, rubric_lookup(rubric), 1, <<>>, {}, raw)

\* The members of the decoded object: those written in the completion, or
\* none for the empty object
Members(json_kind, response) ==
    IF json_kind = "object"
    THEN [total_score |-> response.total_score, max_possible |-> response.max_possible,
          criteria_results |-> response.criteria_results,
          overall_feedback |-> response.overall_feedback]
    ELSE [total_score |-> Absent, max_possible |-> Absent,
          criteria_results |-> [t |-> "absent", items |-> <<>>],
          overall_feedback |-> NoKey]

\* The first of the required fields that is not in data, or "" when all are
MissingField(data) ==
    IF data.total_score.t = "absent" THEN "total_score"
    ELSE IF data.max_possible.t = "absent" THEN "max_possible"
    ELSE IF data.criteria_results.t = "absent" THEN "criteria_results"
    ELSE IF data.overall_feedback = NoKey THEN "overall_feedback"
    ELSE ""

\* The comparison with the left side only above the rubric's total
MaxPossibleAbove(reported_max, rubric) ==
    reported_max.nan \/ reported_max.v > total_max_points(rubric)

\* reported_max != rubric.total_max_points (a NaN differs from every number)
MaxPossibleMismatch(reported_max, rubric) ==
    reported_max.nan \/ reported_max.v # total_max_points(rubric)

\* A reported total that differs from the sum of the awarded points raises
\* nothing (the comparison is made and its branch is empty); comparing a NaN
\* total raises decimal.InvalidOperation
_validate_and_convert(json_kind, response, rubric, submission_id) ==
    LET raw  == response
        data == Members(json_kind, response)
    IN
    IF json_kind = "scalar" THEN Escapes("TypeError", raw)
    ELSE IF MissingField(data) # ""
    THEN ScoringError("Missing required field: " \o MissingField(data), raw)
    ELSE LET criteria == _parse_criteria_results(data.criteria_results, rubric, raw)
         IN
    IF criteria.kind # "parsed" THEN criteria
    ELSE LET reported_total   == _parse_decimal(data.total_score)
             reported_max     == _parse_decimal(data.max_possible)
         IN
    IF ~reported_total.ok THEN ScoringError("Invalid numeric value for total_score", raw)
    ELSE IF reported_total.nan THEN Escapes("InvalidOperation", raw)
    ELSE IF ~reported_max.ok THEN ScoringError("Invalid numeric value for max_possible", raw)
    ELSE IF MaxPossibleMismatch(reported_max, rubric)
    THEN ScoringError("Max possible mismatch", raw)
    ELSE IF data.overall_feedback = "" \/ Len(criteria.result) < 1
    THEN Escapes("ValidationError", raw)
    ELSE Outcome("GradingResult", "",
                 GradingResult(submission_id, rubric.title, criteria.result,
                               data.overall_feedback),
                 raw)

\* ResponseParser.parse: the GradingResult, or the exception that leaves it
parse(response, rubric, submission_id) ==
    LET extracted == ExtractText(response.text)
    IN  IF extracted.err # "" THEN ScoringError(extracted.err, response)
        ELSE IF JsonLoads(extracted.json) = "invalid"
        THEN ScoringError("Invalid JSON", response)
        ELSE _validate_and_convert(JsonLoads(extracted.json), response, rubric,
                                   submission_id)

(***************************************************************************)
(* The completions the parser is checked on.                               *)
(***************************************************************************)
MaxItems == 2
MaxTextLen == 5

Item(criterion, awarded_points, justification, max_points) ==
    [obj |-> TRUE, criterion |-> criterion, awarded_points |-> awarded_points,
     justification |-> justification, max_points |-> max_points]

\* An entry of criteria_results that is no JSON object
NotAnObject ==
    [obj |-> FALSE, criterion |-> <<>>, awarded_points |-> Absent,
     justification |-> "", max_points |-> Absent]

\* Entries: a name that is a rubric name, part of one or none, with points
\* absent, in range or above it; points that are no number, NaN or negative;
\* no name; no justification; an echoed max_points of the oracle's own
Items ==
    {Item(n, a, "Clear", Absent) :
        n \in {<<"a">>, <<"a", "b">>, <<"b">>}, a \in {Absent, Num(10), Num(20)}}
    \cup {Item(<<"a">>, a, "Clear", Absent) : a \in {NonNumeric, NaNValue, Num(-10)}}
    \cup {Item(<<>>, Num(10), "Clear", Absent), Item(<<"a">>, Num(10), "", Absent),
          Item(<<"a">>, Num(10), "Clear", Num(50)), NotAnObject}

ItemLists == UNION { [1..n -> Items] : n \in 0..MaxItems }

Texts == UNION { [1..n -> Tokens] : n \in 0..MaxTextLen }

Response(text, total_score, max_possible, criteria_results, overall_feedback) ==
    [text |-> text, total_score |-> total_score, max_possible |-> max_possible,
     criteria_results |-> criteria_results, overall_feedback |-> overall_feedback]

List(items) == [t |-> "list", items |-> items]

\* One entry per criterion of the rubric, by its name, with the points awards[k]
Entries(rubric, awards) ==
    [k \in 1..Len(rubric.criteria) |->
        Item(rubric.criteria[k].name, Num(awards[k]), "Clear", Absent)]

\* The completion a well-behaved oracle writes: the object alone, one entry per
\* criterion, the totals of the rubric
WellFormed(rubric, awards) ==
    Response(<<"{", "J", "}">>, Num(SumSeq(awards, Len(awards))),
             Num(total_max_points(rubric)), List(Entries(rubric, awards)),
             "Good work")

\* Any list of entries in an object that is well-formed otherwise
ListResponses(rubric) ==
    {Response(<<"{", "J", "}">>, Num(10), Num(total_max_points(rubric)), List(l),
              "Good work") : l \in ItemLists}

\* Any top-level fields around a list that covers the rubric, or around no list
FieldResponses(rubric) ==
    {Response(<<"{", "J", "}">>, ts, mp, cr, fb) :
        ts \in {Absent, NonNumeric, NaNValue, Num(10)},
        mp \in {Absent, NonNumeric, NaNValue, Num(10), Num(20), Num(30)},
        cr \in {[t |-> "absent", items |-> <<>>], [t |-> "notlist", items |-> <<>>],
                List(<<>>), List(<<Item(<<"a">>, Num(10), "Clear", Absent)>>),
                List(<<Item(<<"b">>, Num(30), "Clear", Absent)>>),
                List(Entries(rubric, [k \in 1..Len(rubric.criteria) |-> 10]))},
        fb \in {NoKey, "", "Good work"}}

\* Any text around the well-formed members
TextResponses(rubric) ==
    {[WellFormed(rubric, [k \in 1..Len(rubric.criteria) |-> 10]) EXCEPT !.text = t] :
        t \in Texts}

\* The rubric the texts are tried with
TextRubric ==
    [title |-> RubricTitle, criteria |-> <<RubricCriterion(<<"a">>, ClearThesis, 10)>>]

ParserResponses(r) ==
    ListResponses(r) \cup FieldResponses(r)
    \cup (IF r = TextRubric THEN TextResponses(r) ELSE {})

(***************************************************************************)
(* GradingEngine (src/grading/engine.py).                                  *)
(***************************************************************************)
MaxPasses == 3
DefaultGradingPasses == 3

\* settings.max_variance_percent, in percent
DefaultMaxVariance == 5
ThresholdVals == {DefaultMaxVariance, 7}

\* The scores the oracle's completions award in the runs of grade, in tenths
EngineAwards == {1, 3, 800, 850, 870, 950}
EngineMaxPoints == {10, 1000}

\* float(Decimal) for the decimals of those runs, each converted once
RECURSIVE FloatTable(_)
FloatTable(S) ==
    IF S = {} THEN <<>>
    ELSE LET v == CHOOSE x \in S : TRUE
         IN  (v :> DecimalToFloat(v)) @@ FloatTable(S \ {v})

EngineFloats == FloatTable(EngineAwards \cup EngineMaxPoints)

\* float(p.total_score), float(result.total_max)
float(v) == EngineFloats[v]

\* GradingPass; total_score is result.total_awarded, a Decimal
GradingPass(result) == [result |-> result, total_score |-> total_awarded(result)]

\* [float(p.total_score) for p in passes]
Scores(passes) ==
    SubSeq([k \in 1..Len(passes) |-> float(passes[k].total_score)],
           1, Len(passes))

\* max(scores) and min(scores)
FMaxOf(scores) ==
    scores[CHOOSE k \in 1..Len(scores) : \A j \in 1..Len(scores) : ~FLess(scores[k], scores[j])]

FMinOf(scores) ==
    scores[CHOOSE k \in 1..Len(scores) : \A j \in 1..Len(scores) : ~FLess(scores[j], scores[k])]

\* score_range = max(scores) - min(scores)
score_range(scores) == FAbsDiff(FMaxOf(scores), FMinOf(scores))

\* (score_range / max_possible) * 100, or 0.0 when max_possible is 0
VarianceOf(scores, max_possible) ==
    IF max_possible = FZero THEN FZero
    ELSE FMul100(FDiv(score_range(scores), max_possible))

\* _calculate_variance: (max(scores) - min(scores)) / max_possible * 100 in floats
_calculate_variance(passes) ==
    IF Len(passes) < 2 THEN FZero
    ELSE VarianceOf(Scores(passes), float(total_max(passes[1].result)))

\* sorted(scores)
Sorted(scores) ==
    LET n       == Len(scores)
        rank(k) == Cardinality({j \in 1..n : FLess(scores[j], scores[k])
                                              \/ (scores[j] = scores[k] /\ j < k)}) + 1
    IN  SubSeq([r \in 1..n |-> scores[CHOOSE k \in 1..n : rank(k) = r]], 1, n)

\* The middle value of the sorted data, or the mean of the two middle values
MedianOfSorted(data, n) ==
    IF n % 2 = 1 THEN data[(n + 1) \div 2]
    ELSE FHalf(FAdd(data[n \div 2], data[(n \div 2) + 1]))

\* statistics.median
Median(scores) == MedianOfSorted(Sorted(scores), Len(scores))

\* [abs(float(p.total_score) - median_score) for p in passes]
Keys(scores, median_score) ==
    SubSeq([k \in 1..Len(scores) |-> FAbsDiff(scores[k], median_score)],
           1, Len(scores))

\* min(..., key=...): the index of the first key that no other key is below
MinIndex(keys) ==
    LET least == {k \in 1..Len(keys) : \A j \in 1..Len(keys) : ~FLess(keys[j], keys[k])}
    IN  CHOOSE k \in least : \A j \in least : k <= j

ClosestScore(scores) == MinIndex(Keys(scores, Median(scores)))

\* min(passes, key=lambda p: abs(float(p.total_score) - median_score))
ClosestPass(passes) == ClosestScore(Scores(passes))

\* _select_result: the selected pass and variance_detected
_select_result(passes, max_variance_percent) ==
    IF Len(passes) = 1
    THEN [selected |-> 1, variance_detected |-> FALSE]
    ELSE [selected |-> ClosestPass(passes),
          variance_detected |-> FLess(FFromNat(max_variance_percent),
                                      _calculate_variance(passes))]

\* The re-stamping with the criterion results of the first pass in place of
\* those of the selected pass
WithMetaFirstCriteria(passes, sel, num_passes, max_variance_percent) ==
    [passes[sel.selected].result EXCEPT
        !.criteria_results = passes[1].result.criteria_results,
        !.llm_passes_used = num_passes,
        !.variance_detected = sel.variance_detected,
        !.flagged_for_review =
            sel.variance_detected
            /\ FLess(FFromNat(max_variance_percent), _calculate_variance(passes))]

\* The re-stamping with the review flag set whenever the passes differ at all
WithMetaFlagAnySpread(passes, sel, num_passes, max_variance_percent) ==
    [passes[sel.selected].result EXCEPT
        !.llm_passes_used = num_passes,
        !.variance_detected = sel.variance_detected,
        !.flagged_for_review = FLess(FZero, _calculate_variance(passes))]

\* final_result_with_meta: the selected result with the pass information
WithMeta(passes, sel, num_passes, max_variance_percent) ==
    [passes[sel.selected].result EXCEPT
        !.llm_passes_used = num_passes,
        !.variance_detected = sel.variance_detected,
        !.flagged_for_review =
            sel.variance_detected
            /\ FLess(FFromNat(max_variance_percent), _calculate_variance(passes))]

\* The result grade returns
FinalResult(passes, num_passes, max_variance_percent) ==
    WithMeta(passes, _select_result(passes, max_variance_percent), num_passes,
             max_variance_percent)

\* AuditRecord.compute_hash: SHA-256, taken as collision-free
compute_hash(content) == <<"sha256", content>>

\* settings.llm_temperature and settings.zenmux_model
llm_temperature == 0
zenmux_model == "model"

NoAudit ==
    [rubric_hash |-> <<>>, answer_hash |-> <<>>, result_hash |-> <<>>,
     model_used |-> "", temperature |-> 0, passes_count |-> 0]

\* str(Decimal) of a decimal of v tenths written with one decimal place
DecimalStr(v) == <<ToString(v \div 10), ".", ToString(v % 10)>>

\* "\n".join(lines) for the lines i..Len(lines)
RECURSIVE JoinLines(_, _)
JoinLines(lines, i) ==
    IF i > Len(lines) THEN <<>>
    ELSE IF i = Len(lines) THEN lines[i]
    ELSE lines[i] \o <<"\n">> \o JoinLines(lines, i + 1)

\* rubric_content of _create_audit: the title line, then one line
\* "name: max_points - description" per criterion
rubric_content(rubric) ==
    <<rubric.title, "\n">>
    \o JoinLines([k \in 1..Len(rubric.criteria) |->
                    rubric.criteria[k].name \o <<": ">>
                    \o DecimalStr(rubric.criteria[k].max_points) \o <<" - ">>
                    \o rubric.criteria[k].description], 1)

\* result_content of _create_audit: "total_awarded/total_max", then one line
\* "criterion_name: awarded_points" per criterion result
result_content(result) ==
    DecimalStr(total_awarded(result)) \o <<"/">> \o DecimalStr(total_max(result))
    \o <<"\n">>
    \o JoinLines([k \in 1..Len(result.criteria_results) |->
                    result.criteria_results[k].criterion_name \o <<": ">>
                    \o DecimalStr(result.criteria_results[k].awarded_points)], 1)

\* _create_audit with the answer hash taken of the rubric text
_create_audit_rubric_twice(rubric, student_answer, result) ==
    [rubric_hash |-> compute_hash(rubric_content(rubric)),
     answer_hash |-> compute_hash(rubric_content(rubric)),
     result_hash |-> compute_hash(result_content(result)),
     model_used |-> zenmux_model,
     temperature |-> llm_temperature,
     passes_count |-> result.llm_passes_used]

\* _create_audit
_create_audit(rubric, student_answer, result) ==
    [rubric_hash |-> compute_hash(rubric_content(rubric)),
     answer_hash |-> compute_hash(student_answer),
     result_hash |-> compute_hash(result_content(result)),
     model_used |-> zenmux_model,
     temperature |-> llm_temperature,
     passes_count |-> result.llm_passes_used]

\* PromptBuilder.SYSTEM_PROMPT
SYSTEM_PROMPT == "You are a STRICT academic grader."

\* StrictnessMode
StrictnessModes == {"proportional", "hard_fail"}

\* PromptBuilder._format_rubric: the title, the total, the mode line and one
\* entry per criterion
_format_rubric(rubric, strictness_mode) ==
    <<rubric.title, total_max_points(rubric),
      IF strictness_mode = "hard_fail" THEN "MODE: HARD FAIL" ELSE "MODE: PROPORTIONAL",
      [k \in 1..Len(rubric.criteria) |->
         <<k, rubric.criteria[k].name, rubric.criteria[k].max_points,
           rubric.criteria[k].description>>]>>

\* PromptBuilder.build_grading_prompt: the rubric section, the answer and the
\* max_possible of the output format
build_grading_prompt(rubric, student_answer, strictness_mode) ==
    <<"GRADING TASK", _format_rubric(rubric, strictness_mode), student_answer,
      total_max_points(rubric)>>

\* One call of LLMClient.generate
Generate(system_prompt, user_prompt, temperature) ==
    [system_prompt |-> system_prompt, user_prompt |-> user_prompt,
     temperature |-> temperature]

\* An exception with its class and the pass that raised it (0: after the loop)
Exception(class, pass_number, err) ==
    [class |-> class, pass |-> pass_number, err |-> err]

NoException == Exception("none", 0, "")

(***************************************************************************)
(* The requests the engine is checked on: one-criterion rubrics of 1.0 and *)
(* 100.0 points, and completions that are well-formed with a score taken   *)
(* from EngineAwards, or carry no JSON, or an empty overall_feedback.      *)
(***************************************************************************)
EngineRubrics ==
    {[title |-> RubricTitle, criteria |-> <<RubricCriterion(<<"a">>, ClearThesis, m)>>] :
        m \in EngineMaxPoints}

EngineResponses(r) ==
    {WellFormed(r, <<a>>) : a \in {v \in EngineAwards : v <= r.criteria[1].max_points}}
    \cup {[WellFormed(r, <<1>>) EXCEPT !.text = <<"w">>],
          [WellFormed(r, <<1>>) EXCEPT !.overall_feedback = ""]}

\* The answers graded, as word sequences, each with a strictness mode
Answers == {<<"The", "cat", "sat">>, <<"The", "cat", "sat", "down">>}

GradeInputs ==
    {[student_answer |-> <<"The", "cat", "sat">>, strictness_mode |-> "proportional"],
     [student_answer |-> <<"The", "cat", "sat", "down">>, strictness_mode |-> "hard_fail"]}

\* The passes argument of grade (0 stands for None and for 0, which `or` treats
\* alike) with settings.grading_passes
GradeArgs ==
    {[passes |-> 0, grading_passes |-> g] : g \in 1..MaxPasses}
    \cup {[passes |-> p, grading_passes |-> DefaultGradingPasses] : p \in {-1} \cup 1..MaxPasses}

\* The bounds of settings.grading_passes (ge=1, le=5)
MinGradingPasses == 1
MaxGradingPasses == 5

\* The completions of a pass: any of the rubric's in the first MaxPasses
\* passes, the same one in every later pass
PassResponses(r, i) ==
    IF i < MaxPasses THEN EngineResponses(r) ELSE {WellFormed(r, <<1>>)}

(***************************************************************************)
(* RubricParser (src/rubric/parser.py).  A line is a sequence of           *)
(* one-character strings; the three regular expressions are matched as     *)
(* Python's re matches them (greedy and lazy quantifiers, backtracking).   *)
(***************************************************************************)
\* \s and \d
IsSpace(c) == c \in {" ", "\t"}
IsDigit(c) == c \in {"0", "1", "2", "3", "4", "5", "6", "7", "8", "9"}

\* [-–—]: the hyphen, the en dash and the em dash (written here by name)
IsDash(c) == c \in {"-", "ndash", "mdash"}

\* The first position from i on that holds no character of the class, or
\* Len(s) + 1
RECURSIVE SkipSpaces(_, _)
SkipSpaces(s, i) ==
    IF i > Len(s) THEN i
    ELSE IF IsSpace(s[i]) THEN SkipSpaces(s, i + 1) ELSE i

RECURSIVE SkipDigits(_, _)
SkipDigits(s, i) ==
    IF i > Len(s) THEN i
    ELSE IF IsDigit(s[i]) THEN SkipDigits(s, i + 1) ELSE i

\* The last position up to i that holds no space, or 0
RECURSIVE LastNonSpace(_, _)
LastNonSpace(s, i) ==
    IF i < 1 THEN 0
    ELSE IF IsSpace(s[i]) THEN LastNonSpace(s, i - 1) ELSE i

\* str.strip()
Strip(s) == SubSeq(s, SkipSpaces(s, 1), LastNonSpace(s, Len(s)))

\* str.startswith
StartsWith(s, prefix) ==
    Len(s) >= Len(prefix) /\ SubSeq(s, 1, Len(prefix)) = prefix

\* The first position from i on that holds c, or 0
RECURSIVE Find(_, _, _)
Find(s, c, i) ==
    IF i > Len(s) THEN 0
    ELSE IF s[i] = c THEN i ELSE Find(s, c, i + 1)

\* (\d+(?:\.\d+)?) at i: the position after the number, or 0 when there is
\* no digit at i.  What follows the number in each pattern is no digit and no
\* dot, so the greedy match is the only one that can go on.
NumberEnd(s, i) ==
    IF SkipDigits(s, i) = i THEN 0
    ELSE IF /\ SkipDigits(s, i) < Len(s)
            /\ s[SkipDigits(s, i)] = "."
            /\ IsDigit(s[SkipDigits(s, i) + 1])
    THEN SkipDigits(s, SkipDigits(s, i) + 1)
    ELSE SkipDigits(s, i)

\* (?:points?|pts?|marks?) under re.IGNORECASE
UnitWords ==
    {<<"p", "o", "i", "n", "t", "s">>, <<"p", "o", "i", "n", "t">>,
     <<"p", "t", "s">>, <<"p", "t">>,
     <<"m", "a", "r", "k", "s">>, <<"m", "a", "r", "k">>}

\* The unit word w is at i
UnitAt(s, i, w) ==
    /\ i + Len(w) - 1 <= Len(s)
    /\ Lower(SubSeq(s, i, i + Len(w) - 1)) = w

\* The positions after a unit word at i
UnitEnds(s, i) == {i + Len(w) : w \in {u \in UnitWords : UnitAt(s, i, u)}}

\* A match of one of the patterns: the text of its groups, or no match
Match(name, points, description) ==
    [ok |-> TRUE, name |-> name, points |-> points, description |-> description]

NoMatch == [ok |-> FALSE, name |-> <<>>, points |-> <<>>, description |-> <<>>]

\* The first position from i on that holds neither a colon nor a space
RECURSIVE SkipColonsSpaces(_, _)
SkipColonsSpaces(s, i) ==
    IF i > Len(s) THEN i
    ELSE IF s[i] = ":" \/ IsSpace(s[i]) THEN SkipColonsSpaces(s, i + 1) ELSE i

\* The first position from i on that holds none of , ; : and no space
RECURSIVE SkipSeparators(_, _)
SkipSeparators(s, i) ==
    IF i > Len(s) THEN i
    ELSE IF s[i] \in {",", ";", ":"} \/ IsSpace(s[i]) THEN SkipSeparators(s, i + 1)
    ELSE i

\* NUMBERED_PATTERN from the "(" at p, where the name group is s[g..p-1]:
\* the number, the unit, ")" and the description
NumberedFrom(s, g, p, n1) ==
    IF n1 = 0 THEN NoMatch
    ELSE LET ends == {e \in UnitEnds(s, SkipSpaces(s, n1)) : e <= Len(s) /\ s[e] = ")"}
         IN  IF ends = {} THEN NoMatch
             ELSE Match(SubSeq(s, g, p - 1), SubSeq(s, p + 1, n1 - 1),
                        SubSeq(s, SkipColonsSpaces(s, (CHOOSE e \in ends : TRUE) + 1),
                               Len(s)))

\* NUMBERED_PATTERN after "<digits>." that ends at j: \s* keeps all the spaces
\* it can while [^(]+ has one character left before the first "(" at p
NumberedName(s, j, p) ==
    IF p = 0 \/ p = j + 1 THEN NoMatch
    ELSE NumberedFrom(s, IF SkipSpaces(s, j + 1) < p THEN SkipSpaces(s, j + 1) ELSE p - 1,
                      p, NumberEnd(s, p + 1))

\* NUMBERED_PATTERN.match(s)
MatchNumbered(s) ==
    IF SkipDigits(s, SkipSpaces(s, 1)) = SkipSpaces(s, 1) THEN NoMatch
    ELSE IF SkipDigits(s, SkipSpaces(s, 1)) > Len(s) THEN NoMatch
    ELSE IF s[SkipDigits(s, SkipSpaces(s, 1))] # "." THEN NoMatch
    ELSE NumberedName(s, SkipDigits(s, SkipSpaces(s, 1)),
                      Find(s, "(", SkipDigits(s, SkipSpaces(s, 1)) + 1))

\* The description group (.+)$ after the second dash at d: \s* keeps all the
\* spaces it can while one character is left
SimpleDescription(s, d) ==
    IF SkipSpaces(s, d + 1) <= Len(s) THEN SubSeq(s, SkipSpaces(s, d + 1), Len(s))
    ELSE SubSeq(s, Len(s), Len(s))

\* The positions of the second dash for a number that ends before n1
SimpleSecondDash(s, n1) ==
    IF n1 = 0 THEN {}
    ELSE {d \in {SkipSpaces(s, e) : e \in UnitEnds(s, SkipSpaces(s, n1))} :
            d < Len(s) /\ IsDash(s[d])}

\* SIMPLE_PATTERN with the name group s[b..e]: the match, or none
SimpleWithName(s, b, e) ==
    LET k  == SkipSpaces(s, e + 1)
        n0 == SkipSpaces(s, k + 1)
        n1 == NumberEnd(s, n0)
    IN  IF k > Len(s) THEN NoMatch
        ELSE IF ~IsDash(s[k]) THEN NoMatch
        ELSE IF SimpleSecondDash(s, n1) = {} THEN NoMatch
        ELSE Match(SubSeq(s, b, e), SubSeq(s, n0, n1 - 1),
                   SimpleDescription(s, CHOOSE d \in SimpleSecondDash(s, n1) : TRUE))

\* SIMPLE_PATTERN.match(s): the lazy name group [^-]+? takes the shortest
\* name, from the first character that is no space, that lets the rest match
RECURSIVE SimpleFrom(_, _, _)
SimpleFrom(s, b, e) ==
    IF e > Len(s) THEN NoMatch
    ELSE IF s[e] = "-" THEN NoMatch
    ELSE IF SimpleWithName(s, b, e).ok THEN SimpleWithName(s, b, e)
    ELSE SimpleFrom(s, b, e + 1)

MatchSimple(s) == SimpleFrom(s, SkipSpaces(s, 1), SkipSpaces(s, 1))

\* The description group (.+)$ after the unit that ends before u: [,;:\s]+
\* keeps all it can while one character is left, and needs one itself
ColonDescription(s, name, points, u) ==
    IF SkipSeparators(s, u) = u THEN NoMatch
    ELSE IF SkipSeparators(s, u) <= Len(s)
    THEN Match(name, points, SubSeq(s, SkipSeparators(s, u), Len(s)))
    ELSE IF Len(s) - u + 1 >= 2
    THEN Match(name, points, SubSeq(s, Len(s), Len(s)))
    ELSE NoMatch

\* COLON_PATTERN after the first colon at p, the number starting at n0
ColonFrom(s, b, p, n0, n1) ==
    IF n1 = 0 THEN NoMatch
    ELSE LET ends == {e \in UnitEnds(s, SkipSpaces(s, n1)) :
                        ColonDescription(s, <<>>, <<>>, e).ok}
         IN  IF ends = {} THEN NoMatch
             ELSE ColonDescription(s, SubSeq(s, b, p - 1), SubSeq(s, n0, n1 - 1),
                                   CHOOSE e \in ends : TRUE)

\* COLON_PATTERN.match(s)
ColonName(s, b, p) ==
    IF p = 0 \/ p = b THEN NoMatch
    ELSE ColonFrom(s, b, p, SkipSpaces(s, p + 1), NumberEnd(s, SkipSpaces(s, p + 1)))

MatchColon(s) == ColonName(s, SkipSpaces(s, 1), Find(s, ":", SkipSpaces(s, 1)))

\* The digits d[1..n] read as a natural number
RECURSIVE DigitsToNat(_, _)
DigitsToNat(d, n) ==
    IF n = 0 THEN 0
    ELSE 10 * DigitsToNat(d, n - 1)
         + (CHOOSE v \in 0..9 : ToString(v) = d[n])

\* Decimal(points_str) in tenths, for a number written with at most one
\* decimal place
DecimalOf(points_str) ==
    IF Find(points_str, ".", 1) = 0
    THEN 10 * DigitsToNat(points_str, Len(points_str))
    ELSE 10 * DigitsToNat(points_str, Find(points_str, ".", 1) - 1)
         + DigitsToNat(SubSeq(points_str, Find(points_str, ".", 1) + 1,
                              Find(points_str, ".", 1) + 1), 1)

\* The limits of the fields of RubricCriterion: max_length of name, and le of
\* max_points in tenths
NameMaxLength == 200
MaxPointsLimit == 10000

\* What trying a format on a line gives: nothing, a criterion, or the
\* exception raised
NoCriterion == [kind |-> "none", criterion |-> <<>>, line_number |-> 0]

Raised(class, line_number) ==
    [kind |-> class, criterion |-> <<>>, line_number |-> line_number]

\* RubricCriterion(name=..., max_points=..., description=...) with the field
\* constraints of the model
NewCriterion(name, max_points, description) ==
    IF \/ Len(name) < 1 \/ Len(name) > NameMaxLength
       \/ Len(description) < 1
       \/ max_points <= 0 \/ max_points > MaxPointsLimit
    THEN Raised("ValidationError", 0)
    ELSE [kind |-> "criterion",
          criterion |-> RubricCriterion(name, description, max_points),
          line_number |-> 0]

EvaluationOf == <<"E", "v", "a", "l", "u", "a", "t", "i", "o", "n", " ", "o", "f", " ">>

\* The criterion of a line that matched with the name and description given:
\* _parse_points raises for points that are not positive
FromMatch(name, points_str, description, line_num) ==
    IF DecimalOf(points_str) <= 0 THEN Raised("RubricParseError", line_num)
    ELSE NewCriterion(name, DecimalOf(points_str), description)

\* _try_numbered_format with its match m
NumberedCriterion(m, line_num) ==
    IF ~m.ok THEN NoCriterion
    ELSE FromMatch(Strip(m.name), m.points,
                   IF Strip(m.description) # <<>> THEN Strip(m.description)
                   ELSE EvaluationOf \o Strip(m.name),
                   line_num)

_try_numbered_format(line, line_num) == NumberedCriterion(MatchNumbered(line), line_num)

\* _try_simple_format and _try_colon_format with their match m
PlainCriterion(m, line_num) ==
    IF ~m.ok THEN NoCriterion
    ELSE FromMatch(Strip(m.name), m.points, Strip(m.description), line_num)

_try_simple_format(line, line_num) == PlainCriterion(MatchSimple(line), line_num)

_try_colon_format(line, line_num) == PlainCriterion(MatchColon(line), line_num)

\* str.split(c)
RECURSIVE Split(_, _)
Split(s, c) ==
    IF Find(s, c, 1) = 0 THEN <<s>>
    ELSE <<SubSeq(s, 1, Find(s, c, 1) - 1)>>
         \o Split(SubSeq(s, Find(s, c, 1) + 1, Len(s)), c)

\* The stripped cells of a table row that are not empty
RECURSIVE Cells(_)
Cells(parts) ==
    IF parts = <<>> THEN <<>>
    ELSE IF Strip(Head(parts)) = <<>> THEN Cells(Tail(parts))
    ELSE <<Strip(Head(parts))>> \o Cells(Tail(parts))

\* " ".join(cells[i:]) for the 1-based position i
RECURSIVE JoinCells(_, _)
JoinCells(cells, i) ==
    IF i > Len(cells) THEN <<>>
    ELSE IF i = Len(cells) THEN cells[i]
    ELSE cells[i] \o <<" ">> \o JoinCells(cells, i + 1)

\* The first position from i on that holds a digit, or 0
RECURSIVE FindDigit(_, _)
FindDigit(s, i) ==
    IF i > Len(s) THEN 0
    ELSE IF IsDigit(s[i]) THEN i ELSE FindDigit(s, i + 1)

\* The position after the optional unit word at i of the search in a table
\* cell, which ignores no case: the longest word of the stem found there
CellUnitEnd(s, i) ==
    IF {i + Len(w) : w \in {u \in UnitWords :
            i + Len(u) - 1 <= Len(s) /\ SubSeq(s, i, i + Len(u) - 1) = u}} = {}
    THEN i
    ELSE CHOOSE e \in {i + Len(w) : w \in {u \in UnitWords :
            i + Len(u) - 1 <= Len(s) /\ SubSeq(s, i, i + Len(u) - 1) = u}} :
            \A w \in UnitWords :
                (i + Len(w) - 1 <= Len(s) /\ SubSeq(s, i, i + Len(w) - 1) = w)
                    => i + Len(w) <= e

\* str.replace(old, ""), old not empty
RECURSIVE RemoveAll(_, _)
RemoveAll(s, old) ==
    IF Len(s) < Len(old) THEN s
    ELSE IF SubSeq(s, 1, Len(old)) = old
    THEN RemoveAll(SubSeq(s, Len(old) + 1, Len(s)), old)
    ELSE <<Head(s)>> \o RemoveAll(Tail(s), old)

\* The decimal digits of n
RECURSIVE NatDigits(_)
NatDigits(n) ==
    IF n < 10 THEN <<ToString(n)>>
    ELSE NatDigits(n \div 10) \o <<ToString(n % 10)>>

CriterionN(line_num) == <<"C", "r", "i", "t", "e", "r", "i", "o", "n", " ">> \o NatDigits(line_num)

\* The criterion of a table row whose cell i is the first that holds a number,
\* at d: the name is what is left of the first cell, or the first cell
TableCriterion(cells, i, d, line_num) ==
    IF DecimalOf(SubSeq(cells[i], d, NumberEnd(cells[i], d) - 1)) <= 0
    THEN Raised("RubricParseError", line_num)
    ELSE IF i = 1
    THEN LET group0 == SubSeq(cells[1], d,
                              CellUnitEnd(cells[1], SkipSpaces(cells[1], NumberEnd(cells[1], d))) - 1)
             name   == IF Strip(RemoveAll(cells[1], group0)) # <<>>
                       THEN Strip(RemoveAll(cells[1], group0))
                       ELSE CriterionN(line_num)
         IN  NewCriterion(name, DecimalOf(SubSeq(cells[1], d, NumberEnd(cells[1], d) - 1)),
                          IF JoinCells(cells, 2) # <<>> THEN JoinCells(cells, 2)
                          ELSE EvaluationOf \o name)
    ELSE NewCriterion(cells[1], DecimalOf(SubSeq(cells[i], d, NumberEnd(cells[i], d) - 1)),
                      IF i + 1 <= Len(cells) THEN JoinCells(cells, i + 1)
                      ELSE EvaluationOf \o cells[1])

\* The loop over the cells of _try_table_format, from cell i
RECURSIVE TableFrom(_, _, _)
TableFrom(cells, i, line_num) ==
    IF i > Len(cells) THEN NoCriterion
    ELSE IF FindDigit(cells[i], 1) = 0 THEN TableFrom(cells, i + 1, line_num)
    ELSE TableCriterion(cells, i, FindDigit(cells[i], 1), line_num)

_try_table_format(line, line_num) ==
    IF ~StartsWith(line, <<"|">>) THEN NoCriterion
    ELSE IF Len(Cells(Split(line, "|"))) < 2 THEN NoCriterion
    ELSE TableFrom(Cells(Split(line, "|")), 1, line_num)

\* The lines _parse_lines skips: empty ones, headings, rules and the
\* separator rows of tables
RECURSIVE RemoveChar(_, _)
RemoveChar(s, c) ==
    IF s = <<>> THEN <<>>
    ELSE IF Head(s) = c THEN RemoveChar(Tail(s), c)
    ELSE <<Head(s)>> \o RemoveChar(Tail(s), c)

Skipped(stripped) ==
    \/ stripped = <<>>
    \/ StartsWith(stripped, <<"#">>)
    \/ StartsWith(stripped, <<"-", "-", "-">>)
    \/ /\ StartsWith(stripped, <<"|">>)
       /\ \A k \in DOMAIN Strip(RemoveChar(stripped, "|")) :
              Strip(RemoveChar(stripped, "|"))[k] \in {"-", ":"}

\* The four formats tried in turn on a stripped line: the first that gives a
\* criterion or raises
TryFormats(stripped, line_num) ==
    IF _try_numbered_format(stripped, line_num).kind # "none"
    THEN _try_numbered_format(stripped, line_num)
    ELSE IF _try_simple_format(stripped, line_num).kind # "none"
    THEN _try_simple_format(stripped, line_num)
    ELSE IF _try_colon_format(stripped, line_num).kind # "none"
    THEN _try_colon_format(stripped, line_num)
    ELSE _try_table_format(stripped, line_num)

\* What _parse_lines and parse give: the criteria, the rubric, or the
\* exception raised
ParsedCriteria(criteria) ==
    [kind |-> "criteria", criteria |-> criteria, line_number |-> 0]

\* _parse_lines from line line_num on, with the criteria found so far
RECURSIVE ParseLinesFrom(_, _, _)
ParseLinesFrom(lines, line_num, criteria) ==
    IF line_num > Len(lines) THEN ParsedCriteria(criteria)
    ELSE IF Skipped(Strip(lines[line_num]))
    THEN ParseLinesFrom(lines, line_num + 1, criteria)
    ELSE IF TryFormats(Strip(lines[line_num]), line_num).kind = "none"
    THEN ParseLinesFrom(lines, line_num + 1, criteria)
    ELSE IF TryFormats(Strip(lines[line_num]), line_num).kind = "criterion"
    THEN ParseLinesFrom(lines, line_num + 1,
            Append(criteria, TryFormats(Strip(lines[line_num]), line_num).criterion))
    ELSE [kind |-> TryFormats(Strip(lines[line_num]), line_num).kind,
          criteria |-> <<>>,
          line_number |-> TryFormats(Strip(lines[line_num]), line_num).line_number]

\* _parse_lines that takes a line no format matches for an error
ParseLinesUnmatchedRaises(lines) ==
    IF \E i \in DOMAIN lines :
          /\ ~Skipped(Strip(lines[i]))
          /\ TryFormats(Strip(lines[i]), i).kind = "none"
    THEN [kind |-> "RubricParseError", criteria |-> <<>>,
          line_number |-> CHOOSE i \in DOMAIN lines :
                              /\ ~Skipped(Strip(lines[i]))
                              /\ TryFormats(Strip(lines[i]), i).kind = "none"]
    ELSE ParseLinesFrom(lines, 1, <<>>)

_parse_lines(lines) == ParseLinesFrom(lines, 1, <<>>)

\* re.search(r"\d+\s*(?:points?|pts?|marks?)", stripped, re.IGNORECASE)
LooksLikeCriterion(stripped) ==
    \E j \in 1..Len(stripped) :
        IsDigit(stripped[j]) /\ UnitEnds(stripped, SkipSpaces(stripped, j + 1)) # {}

\* str.lstrip("#")
RECURSIVE LStripHashes(_)
LStripHashes(s) ==
    IF s = <<>> THEN s
    ELSE IF Head(s) = "#" THEN LStripHashes(Tail(s)) ELSE s

\* The longest line taken for a title is shorter than this
TitleLineLimit == 100

\* _extract_title from line i on: the title found, or <<>> for None
RECURSIVE ExtractTitleFrom(_, _)
ExtractTitleFrom(lines, i) ==
    IF i > Len(lines) THEN <<>>
    ELSE IF StartsWith(Strip(lines[i]), <<"#">>)
    THEN Strip(LStripHashes(Strip(lines[i])))
    ELSE IF Strip(lines[i]) # <<>> /\ ~LooksLikeCriterion(Strip(lines[i]))
    THEN IF /\ Len(Strip(lines[i])) < TitleLineLimit
            /\ \A k \in DOMAIN Strip(lines[i]) : Strip(lines[i])[k] \notin {"|", "-", ":"}
         THEN Strip(lines[i])
         ELSE <<>>
    ELSE ExtractTitleFrom(lines, i + 1)

_extract_title(lines) == ExtractTitleFrom(lines, 1)

\* content.strip().split("\n") for a content given by its lines: the blank
\* lines at both ends go
RECURSIVE DropBlankHead(_)
DropBlankHead(lines) ==
    IF lines = <<>> THEN lines
    ELSE IF Strip(Head(lines)) = <<>> THEN DropBlankHead(Tail(lines)) ELSE lines

RECURSIVE DropBlankTail(_)
DropBlankTail(lines) ==
    IF lines = <<>> THEN lines
    ELSE IF Strip(lines[Len(lines)]) = <<>>
    THEN DropBlankTail(SubSeq(lines, 1, Len(lines) - 1)) ELSE lines

StrippedLines(content) == DropBlankTail(DropBlankHead(content))

\* The default title of RubricParser.parse, and the longest title of a Rubric
GradingRubric == <<"G", "r", "a", "d", "i", "n", "g", " ", "R", "u", "b", "r", "i", "c">>
TitleMaxLength == 500

\* Rubric(title=..., criteria=...) with the field constraints and the
\* validator of the model
NewRubric(title, criteria) ==
    IF \/ Len(title) < 1 \/ Len(title) > TitleMaxLength
       \/ Len(criteria) < 1
       \/ ~validate_no_duplicate_names(criteria)
    THEN [kind |-> "ValidationError", rubric |-> <<>>, line_number |-> 0]
    ELSE [kind |-> "Rubric", rubric |-> [title |-> title, criteria |-> criteria],
          line_number |-> 0]

\* RubricParser.parse with the lines left of the content and what
\* _parse_lines made of them
ParseWith(lines, parsed, title) ==
    IF parsed.kind # "criteria"
    THEN [kind |-> parsed.kind, rubric |-> <<>>, line_number |-> parsed.line_number]
    ELSE IF parsed.criteria = <<>>
    THEN [kind |-> "RubricParseError", rubric |-> <<>>, line_number |-> 0]
    ELSE NewRubric(IF _extract_title(lines) # <<>> THEN _extract_title(lines) ELSE title,
                   parsed.criteria)

\* RubricParser.parse(content, title), the content given by its lines
RubricParser_parse(content, title) ==
    IF StrippedLines(content) = <<>>
    THEN [kind |-> "RubricParseError", rubric |-> <<>>, line_number |-> 0]
    ELSE ParseWith(StrippedLines(content), _parse_lines(StrippedLines(content)), title)

(***************************************************************************)
(* RubricValidator (src/rubric/validator.py).  An issue is kept as the     *)
(* check that found it with what its message names: the position and the   *)
(* name of the criterion, the vague words found, and a number (the first   *)
(* position of a duplicate, or the total).                                 *)
(***************************************************************************)
MIN_DESCRIPTION_LENGTH == 10
MAX_POINTS_PER_CRITERION == 10000

VAGUE_WORDS ==
    {<<"g", "o", "o", "d">>,
     <<"b", "a", "d">>,
     <<"n", "i", "c", "e">>,
     <<"o", "k", "a", "y">>,
     <<"f", "i", "n", "e">>,
     <<"a", "p", "p", "r", "o", "p", "r", "i", "a", "t", "e">>,
     <<"a", "d", "e", "q", "u", "a", "t", "e">>,
     <<"s", "u", "f", "f", "i", "c", "i", "e", "n", "t">>,
     <<"r", "e", "a", "s", "o", "n", "a", "b", "l", "e">>}

Issue(check, index, name, words, number) ==
    [check |-> check, index |-> index, name |-> name, words |-> words,
     number |-> number]

_validate_structure(r) ==
    (IF Strip(r.title) = <<>> THEN <<Issue("Rubric title is empty", 0, <<>>, {}, 0)>>
     ELSE <<>>)
    \o (IF Len(r.criteria) = 0 THEN <<Issue("Rubric has no criteria", 0, <<>>, {}, 0)>>
        ELSE <<>>)

\* vague_found, as a set: the words are joined in the order of a frozenset
vague_found(description) == {v \in VAGUE_WORDS : IsSubstring(v, Lower(description))}

_validate_criterion(criterion, index) ==
    (IF Len(Strip(criterion.name)) < 2
     THEN <<Issue("Name is too short", index, criterion.name, {}, 0)>> ELSE <<>>)
    \o (IF Len(Strip(criterion.description)) < MIN_DESCRIPTION_LENGTH
        THEN <<Issue("Description is too short", index, criterion.name, {}, 0)>>
        ELSE <<>>)
    \o (IF vague_found(criterion.description) # {}
        THEN <<Issue("Description contains vague words", index, criterion.name,
                     vague_found(criterion.description), 0)>>
        ELSE <<>>)
    \o (IF criterion.max_points > MAX_POINTS_PER_CRITERION
        THEN <<Issue("Points exceed maximum", index, criterion.name, {},
                     criterion.max_points)>>
        ELSE <<>>)

\* The issues of the criteria from position i on
RECURSIVE CriteriaIssues(_, _)
CriteriaIssues(criteria, i) ==
    IF i > Len(criteria) THEN <<>>
    ELSE _validate_criterion(criteria[i], i) \o CriteriaIssues(criteria, i + 1)

\* criterion.name.lower().strip()
name_lower(criterion) == Strip(Lower(criterion.name))

\* seen_names[name_lower] at position i: the first position that holds the
\* name of criteria[i], or i when none before does
FirstSeen(criteria, i) ==
    CHOOSE j \in 1..i :
        /\ name_lower(criteria[j]) = name_lower(criteria[i])
        /\ \A k \in 1..(j - 1) : name_lower(criteria[k]) # name_lower(criteria[i])

RECURSIVE DuplicatesFrom(_, _)
DuplicatesFrom(criteria, i) ==
    IF i > Len(criteria) THEN <<>>
    ELSE (IF FirstSeen(criteria, i) < i
          THEN <<Issue("Duplicate criterion name", i, criteria[i].name, {},
                       FirstSeen(criteria, i))>>
          ELSE <<>>)
         \o DuplicatesFrom(criteria, i + 1)

_check_duplicates(criteria) == DuplicatesFrom(criteria, 1)

_validate_total_points(r) ==
    (IF total_max_points(r) <= 0
     THEN <<Issue("Total points must be greater than 0", 0, <<>>, {}, total_max_points(r))>>
     ELSE <<>>)
    \o (IF total_max_points(r) > 10000
        THEN <<Issue("Total points is unusually high", 0, <<>>, {}, total_max_points(r))>>
        ELSE <<>>)

\* The issue list of validate
Issues(r) ==
    _validate_structure(r) \o CriteriaIssues(r.criteria, 1)
    \o _check_duplicates(r.criteria) \o _validate_total_points(r)

\* validate that returns the first issue only
ValidatedFirstIssue(issues) ==
    [is_valid |-> Len(issues) = 0, issues |-> SubSeq(issues, 1, 1)]

\* What validate returns for the issue list found
Validated(issues) == [is_valid |-> Len(issues) = 0, issues |-> issues]

\* RubricValidator.validate(rubric)
validate(r) == Validated(Issues(r))

(***************************************************************************)
(* The rubric texts parsed: lists of up to MaxLines criteria written one   *)
(* per line in the numbered, the dash-separated or the colon-separated     *)
(* format, and a few texts of other shapes.                                *)
(***************************************************************************)
MaxLines == 2

GoodAnswer == <<"g", "o", "o", "d", " ", "a", "n", "s", "w", "e", "r">>

\* The criteria written: two names that differ in case only, a hyphenated
\* name, a name of one letter with a vague description, and a description of
\* one letter
RubricItems ==
    {RubricCriterion(<<"a", "b">>, ClearThesis, 1000),
     RubricCriterion(<<"A", "B">>, ClearThesis, 10),
     RubricCriterion(<<"a", "-", "b">>, ClearThesis, 15),
     RubricCriterion(<<"a">>, GoodAnswer, 10),
     RubricCriterion(<<"c", "d">>, <<"x">>, 10000),
     RubricCriterion(<<"e", "f">>, ClearThesis, 10000)}

CriteriaLists == UNION {[1..n -> RubricItems] : n \in 1..MaxLines}

\* The text of a decimal of v tenths
DecimalText(v) ==
    IF v % 10 = 0 THEN NatDigits(v \div 10)
    ELSE NatDigits(v \div 10) \o <<".">> \o NatDigits(v % 10)

\* The line of criterion c, the i-th of its list, in each format
EncodeNumbered(c, i) ==
    NatDigits(i) \o <<".", " ">> \o c.name \o <<" ", "(">> \o DecimalText(c.max_points)
    \o <<" ", "p", "o", "i", "n", "t", "s", ")", ":", " ">> \o c.description

EncodeDash(c, i) ==
    c.name \o <<" ", "-", " ">> \o DecimalText(c.max_points)
    \o <<" ", "p", "o", "i", "n", "t", "s", " ", "-", " ">> \o c.description

EncodeColon(c, i) ==
    c.name \o <<":", " ">> \o DecimalText(c.max_points)
    \o <<" ", "p", "o", "i", "n", "t", "s", ",", " ">> \o c.description

Formats == {"numbered", "dash", "colon"}

EncodeLine(c, i, format) ==
    IF format = "numbered" THEN EncodeNumbered(c, i)
    ELSE IF format = "dash" THEN EncodeDash(c, i)
    ELSE EncodeColon(c, i)

\* The text of a list of criteria, one line each
Encode(criteria, format) ==
    SubSeq([i \in 1..Len(criteria) |-> EncodeLine(criteria[i], i, format)],
           1, Len(criteria))

\* Texts of other shapes: none, blank lines, a heading and a table, a title
\* line, zero points, a numbered line without a name, and a heading below
\* a plain line
OtherContents ==
    {<<>>,
     <<<<"T">>, <<"#", " ", "H">>, <<"a", "b", ":", " ", "5", " ", "p", "t", "s", " ", "x">>>>,
     <<<<" ">>, <<>>>>,
     <<<<"#", " ", "T">>, <<"|", " ", "a", "b", " ", "|", " ", "5", " ", "|", " ", "x", " ", "|">>>>,
     <<<<"T">>, <<"-", "-", "-">>, <<"a", "b", ":", " ", "5", " ", "p", "t", "s", " ", "x">>>>,
     <<<<>>, <<"a", "b", " ", "-", " ", "0", " ", "p", "t", "s", " ", "-", " ", "x">>>>,
     <<<<"1", ".", " ", "(", "5", " ", "p", "t", "s", ")", " ", "x">>>>}

RubricContents ==
    {Encode(l, f) : l \in CriteriaLists, f \in Formats} \cup OtherContents

\* The titles and criteria a Rubric is constructed from directly
RubricTitles == {RubricTitle, <<" ">>, <<>>}

\* The rubric files the grade command is run on: one criterion of 100.0 or
\* 1.0 points that passes validation, and texts that fail parsing,
\* construction or validation
CommandLists ==
    {l \in CriteriaLists :
        \A i \in 1..Len(l) : l[i].name \notin {<<"a", "-", "b">>, <<"e", "f">>}}

CommandContents == {Encode(l, f) : l \in CommandLists, f \in Formats} \cup OtherContents

(***************************************************************************)
(* State.  The parser is a pure function; its runs have rubric, response   *)
(* and outcome.  A run of grade has the request (rubric, passes_arg and    *)
(* the settings), the locals of _perform_passes (pass_i, passes, errors),  *)
(* and what grade ends with: final and audit returned, or raised.  calls   *)
(* is the history of the calls of LLMClient.generate and completions what  *)
(* each of them returned or raised.  A run of the grade command            *)
(* (src/main.py) has the text of the rubric file (content), what           *)
(* RubricParser.parse and the validator made of it (parsed_rubric,         *)
(* validation), its position (cli), the exception that ended it (failure)  *)
(* and the report and audit record it produced (outputs).  A call of       *)
(* LLMClient.generate has the index of the retry loop (attempt), what each *)
(* API call did (api_calls), the delays slept (sleeps) and what generate   *)
(* ended with (generated).                                                 *)
(***************************************************************************)
VARIABLES rubric, response, outcome, pc,
          passes_arg, grading_passes, max_variance_percent,
          student_answer, strictness_mode,
          num_passes, pass_i, passes, errors, final, audit, raised,
          system_prompt, user_prompt, calls, completions,
          content, parsed_rubric, validation, cli, failure, outputs,
          attempt, api_calls, sleeps, generated

vars == <<rubric, response, outcome, pc, passes_arg, grading_passes,
          max_variance_percent, student_answer, strictness_mode,
          num_passes, pass_i, passes, errors, final,
          audit, raised, system_prompt, user_prompt, calls, completions,
          content, parsed_rubric, validation, cli, failure, outputs,
          attempt, api_calls, sleeps, generated>>

command  == <<content, parsed_rubric, validation, cli, failure, outputs>>
client   == <<attempt, api_calls, sleeps, generated>>

request  == <<rubric, passes_arg, grading_passes, max_variance_percent,
              student_answer, strictness_mode>>
prompts  == <<system_prompt, user_prompt>>
parsing  == <<response, outcome>>
returned == <<final, audit, raised>>

NoResponse == Response(<<>>, Absent, Absent, List(<<>>), NoKey)
NoOutcome == Outcome("none", "", NoResult, NoResponse)

NoRubric == [title |-> <<>>, criteria |-> <<>>]
NoParsedRubric == [kind |-> "none", rubric |-> <<>>, line_number |-> 0]
NoValidation == [called |-> FALSE, is_valid |-> FALSE, issues |-> <<>>]
NoFailure == [class |-> "none", errors |-> <<>>]
NoOutputs == [report |-> <<>>, audit_record |-> NoAudit]

\* The outcome of generate: the text returned or the LLMError raised, and
\* before either
Generated(kind, text, retryable) == [kind |-> kind, text |-> text, retryable |-> retryable]
NotGenerated == Generated("none", "", FALSE)

\* No call of LLMClient.generate is followed
NoClient ==
    /\ attempt = 0 /\ api_calls = <<>> /\ sleeps = <<>> /\ generated = NotGenerated

\* No grade command is run
NoCommand ==
    /\ content = <<>> /\ parsed_rubric = NoParsedRubric /\ validation = NoValidation
    /\ cli = "none" /\ failure = NoFailure /\ outputs = NoOutputs

\* A call of ResponseParser.parse about to be made
InitParser ==
    /\ rubric \in Rubrics
    /\ response \in ParserResponses(rubric)
    /\ outcome = NoOutcome
    /\ pc = "parse"
    /\ passes_arg = 0 /\ grading_passes = DefaultGradingPasses
    /\ max_variance_percent = DefaultMaxVariance
    /\ student_answer = <<>> /\ strictness_mode = "proportional"
    /\ system_prompt = "" /\ user_prompt = <<>> /\ calls = <<>> /\ completions = <<>>
    /\ num_passes = 0 /\ pass_i = 0 /\ passes = <<>> /\ errors = <<>>
    /\ final = NoResult /\ audit = NoAudit /\ raised = NoException
    /\ NoCommand /\ NoClient

\* A call of GradingEngine.grade about to be made
InitGrade ==
    /\ \/ /\ rubric \in EngineRubrics
          /\ \E a \in GradeArgs : passes_arg = a.passes /\ grading_passes = a.grading_passes
          /\ max_variance_percent \in ThresholdVals
          /\ \E g \in GradeInputs :
                student_answer = g.student_answer /\ strictness_mode = g.strictness_mode
       \/ /\ rubric = TextRubric
          /\ passes_arg = MaxGradingPasses + 1 /\ grading_passes = DefaultGradingPasses
          /\ max_variance_percent = DefaultMaxVariance
          /\ student_answer = <<"The", "cat", "sat">> /\ strictness_mode = "proportional"
    /\ system_prompt = "" /\ user_prompt = <<>> /\ calls = <<>> /\ completions = <<>>
    /\ response = NoResponse /\ outcome = NoOutcome
    /\ pc = "grade"
    /\ num_passes = 0 /\ pass_i = 0 /\ passes = <<>> /\ errors = <<>>
    /\ final = NoResult /\ audit = NoAudit /\ raised = NoException
    /\ NoCommand /\ NoClient

Parse ==
    /\ pc = "parse"
    /\ outcome' = parse(response, rubric, 1)
    /\ pc' = "parsed"
    /\ UNCHANGED <<client, command, request, response, num_passes, pass_i, passes, errors,
                   returned, prompts, calls, completions>>

\* grade, up to the loop of _perform_passes: the pass count and the prompts
GradeStart ==
    /\ pc = "grade"
    /\ num_passes' = IF passes_arg # 0 THEN passes_arg ELSE grading_passes
    /\ system_prompt' = SYSTEM_PROMPT
    /\ user_prompt' = build_grading_prompt(rubric, student_answer, strictness_mode)
    /\ pc' = "passes"
    /\ UNCHANGED <<client, command, request, parsing, pass_i, passes, errors, returned, calls,
                   completions>>

\* What generate did in a pass: the completion it returned, or the
\* exception it raised
Completes(r) == [class |-> "", response |-> r]
Raises(class) == [class |-> class, response |-> NoResponse]

\* One pass whose generate raises LLMError (in the first MaxPasses passes)
PassOracleFails ==
    /\ pc = "passes"
    /\ pass_i < num_passes
    /\ pass_i < MaxPasses
    /\ calls' = Append(calls, Generate(system_prompt, user_prompt, llm_temperature))
    /\ errors' = Append(errors, Exception("LLMError", pass_i + 1, "generate"))
    /\ completions' = Append(completions, Raises("LLMError"))
    /\ pass_i' = pass_i + 1
    /\ UNCHANGED <<client, command, request, parsing, pc, num_passes, passes, returned, prompts>>

\* The rest of the loop body once parse has ended with parsed: it appends a
\* pass, or the ScoringError is collected, or what the loop does not catch
\* ends grade
AfterParse(parsed) ==
    IF parsed.kind = "GradingResult"
    THEN /\ passes' = Append(passes, GradingPass(parsed.result))
         /\ UNCHANGED <<errors, raised, pc>>
    ELSE IF parsed.kind = "ScoringError"
    THEN /\ errors' = Append(errors, Exception("ScoringError", pass_i + 1, parsed.err))
         /\ UNCHANGED <<passes, raised, pc>>
    ELSE /\ raised' = Exception(parsed.kind, pass_i + 1, "")
         /\ pc' = "raised"
         /\ UNCHANGED <<passes, errors>>

\* A pass that, in hard_fail mode, takes a completion with partial credit for
\* a scoring error
PassCompletesAllOrNothing ==
    /\ pc = "passes"
    /\ pass_i < num_passes
    /\ calls' = Append(calls, Generate(system_prompt, user_prompt, llm_temperature))
    /\ \E r \in PassResponses(rubric, pass_i) :
          /\ IF /\ strictness_mode = "hard_fail"
                /\ parse(r, rubric, pass_i + 1).kind = "GradingResult"
                /\ \E k \in DOMAIN parse(r, rubric, pass_i + 1).result.criteria_results :
                       LET c == parse(r, rubric, pass_i + 1).result.criteria_results[k]
                       IN  c.awarded_points # 0 /\ c.awarded_points # c.max_points
             THEN AfterParse(ScoringError("Partial credit", r))
             ELSE AfterParse(parse(r, rubric, pass_i + 1))
          /\ completions' = Append(completions, Completes(r))
    /\ pass_i' = pass_i + 1
    /\ UNCHANGED <<client, command, request, parsing, num_passes, final, audit, prompts>>

\* One pass whose generate returns the completion r
PassCompletes ==
    /\ pc = "passes"
    /\ pass_i < num_passes
    /\ calls' = Append(calls, Generate(system_prompt, user_prompt, llm_temperature))
    /\ \E r \in PassResponses(rubric, pass_i) :
          /\ AfterParse(parse(r, rubric, pass_i + 1))
          /\ completions' = Append(completions, Completes(r))
    /\ pass_i' = pass_i + 1
    /\ UNCHANGED <<client, command, request, parsing, num_passes, final, audit, prompts>>

\* After the loop with no successful pass: the first error collected, or the
\* LLMError of _perform_passes
RaiseNoPasses ==
    /\ pc = "passes"
    /\ pass_i >= num_passes
    /\ passes = <<>>
    /\ raised' = IF errors # <<>> THEN errors[1]
                 ELSE Exception("LLMError", 0, "No successful grading passes completed")
    /\ pc' = "raised"
    /\ UNCHANGED <<client, command, request, parsing, num_passes, pass_i, passes, errors, final, audit,
                   prompts, calls, completions>>

\* The return of grade taken as soon as one pass has succeeded, whatever
\* passes remain
ReturnResultEarly ==
    /\ pc = "passes"
    /\ passes # <<>>
    /\ final' = FinalResult(passes, num_passes, max_variance_percent)
    /\ audit' = _create_audit(rubric, student_answer, final')
    /\ pc' = "done"
    /\ UNCHANGED <<client, command, request, parsing, num_passes, pass_i, passes, errors, raised,
                   prompts, calls, completions>>

\* After the loop with a successful pass: _select_result, the result with the
\* pass information, _create_audit, and the return of both
ReturnResult ==
    /\ pc = "passes"
    /\ pass_i >= num_passes
    /\ passes # <<>>
    /\ final' = FinalResult(passes, num_passes, max_variance_percent)
    /\ audit' = _create_audit(rubric, student_answer, final')
    /\ pc' = "done"
    /\ UNCHANGED <<client, command, request, parsing, num_passes, pass_i, passes, errors, raised,
                   prompts, calls, completions>>

NextParser == Parse

NextGrade ==
    \/ GradeStart
    \/ PassOracleFails
    \/ PassCompletes
    \/ RaiseNoPasses
    \/ ReturnResult

SpecParser == InitParser /\ [][NextParser]_vars

SpecGrade == InitGrade /\ [][NextGrade]_vars

\* grade about to be called on one rubric and one answer in either
\* strictness mode
InitStrictness ==
    /\ rubric = TextRubric
    /\ \E a \in GradeArgs : passes_arg = a.passes /\ grading_passes = a.grading_passes
    /\ max_variance_percent \in ThresholdVals
    /\ student_answer = <<"The", "cat", "sat">>
    /\ strictness_mode \in StrictnessModes
    /\ system_prompt = "" /\ user_prompt = <<>> /\ calls = <<>> /\ completions = <<>>
    /\ response = NoResponse /\ outcome = NoOutcome
    /\ pc = "grade"
    /\ num_passes = 0 /\ pass_i = 0 /\ passes = <<>> /\ errors = <<>>
    /\ final = NoResult /\ audit = NoAudit /\ raised = NoException
    /\ NoCommand /\ NoClient

SpecStrictness == InitStrictness /\ [][NextGrade]_vars


(***************************************************************************)
(* The rubric on its way to the engine: constructed directly or parsed     *)
(* from a text, inspected by validate, gated by validate_or_raise, and     *)
(* the grade command of src/main.py around them.                           *)
(***************************************************************************)
engine == <<response, outcome, pc, max_variance_percent, grading_passes,
            student_answer, strictness_mode, num_passes, pass_i, passes, errors,
            final, audit, raised, system_prompt, user_prompt, calls,
            completions>>

\* The engine before it is called ("idle"), or none at hand ("none")
EngineAt(position) ==
    /\ response = NoResponse /\ outcome = NoOutcome /\ pc = position
    /\ system_prompt = "" /\ user_prompt = <<>> /\ calls = <<>> /\ completions = <<>>
    /\ num_passes = 0 /\ pass_i = 0 /\ passes = <<>> /\ errors = <<>>
    /\ final = NoResult /\ audit = NoAudit /\ raised = NoException

\* A rubric about to be constructed directly, or parsed from a text
InitRubric ==
    /\ \/ content \in RubricContents /\ cli = "start"
       \/ content = <<>> /\ cli = "construct"
    /\ rubric = NoRubric /\ parsed_rubric = NoParsedRubric
    /\ validation = NoValidation /\ failure = NoFailure /\ outputs = NoOutputs
    /\ passes_arg = 0 /\ grading_passes = DefaultGradingPasses
    /\ max_variance_percent = DefaultMaxVariance
    /\ student_answer = <<>> /\ strictness_mode = "proportional"
    /\ EngineAt("none") /\ NoClient

\* The --passes option of the grade command: 0 when not given
CommandPasses == {0, 2}

\* A run of the grade command about to be made
InitCommand ==
    /\ content \in CommandContents /\ cli = "start"
    /\ rubric = NoRubric /\ parsed_rubric = NoParsedRubric
    /\ validation = NoValidation /\ failure = NoFailure /\ outputs = NoOutputs
    /\ passes_arg \in CommandPasses /\ grading_passes = DefaultGradingPasses
    /\ max_variance_percent = DefaultMaxVariance
    /\ \E g \in GradeInputs :
          student_answer = g.student_answer /\ strictness_mode = g.strictness_mode
    /\ EngineAt("idle") /\ NoClient

\* What becomes of the rubric once it is constructed or not
Constructed(made) ==
    /\ parsed_rubric' = made
    /\ IF made.kind = "Rubric"
       THEN rubric' = made.rubric /\ cli' = "parsed" /\ failure' = NoFailure
       ELSE rubric' = rubric /\ cli' = "exit"
            /\ failure' = [class |-> made.kind, errors |-> <<>>]

\* Rubric(title=..., criteria=...) called directly
ConstructRubric ==
    /\ cli = "construct"
    /\ \E title \in RubricTitles, criteria \in CriteriaLists :
          Constructed(NewRubric(title, criteria))
    /\ UNCHANGED <<client, content, validation, outputs, engine, passes_arg>>

\* parser.parse(rubric_doc.content)
ParseRubric ==
    /\ cli = "start"
    /\ Constructed(RubricParser_parse(content, GradingRubric))
    /\ UNCHANGED <<client, content, validation, outputs, engine, passes_arg>>

\* What validate returned, kept
Called(v) == [called |-> TRUE, is_valid |-> v.is_valid, issues |-> v.issues]

\* validator.validate(rubric)
Validate ==
    /\ cli = "parsed"
    /\ validation' = Called(validate(rubric))
    /\ cli' = "inspected"
    /\ UNCHANGED <<client, rubric, content, parsed_rubric, failure, outputs, engine,
                   passes_arg>>

\* validate_or_raise that lets every rubric through
ValidateOrRaiseAdvisory ==
    /\ cli \in {"parsed", "inspected"}
    /\ validation' = Called(validate(rubric))
    /\ cli' = "validated" /\ failure' = failure
    /\ UNCHANGED <<client, rubric, content, parsed_rubric, outputs, engine, passes_arg>>

\* validator.validate_or_raise(rubric)
ValidateOrRaise ==
    /\ cli \in {"parsed", "inspected"}
    /\ validation' = Called(validate(rubric))
    /\ IF validate(rubric).is_valid
       THEN cli' = "validated" /\ failure' = failure
       ELSE cli' = "exit"
            /\ failure' = [class |-> "RubricValidationError",
                           errors |-> validate(rubric).issues]
    /\ UNCHANGED <<client, rubric, content, parsed_rubric, outputs, engine, passes_arg>>

\* The call of engine.grade with passes = passes or settings.grading_passes
CommandGrade ==
    /\ cli = "validated"
    /\ pc = "idle"
    /\ passes_arg' = IF passes_arg # 0 THEN passes_arg ELSE grading_passes
    /\ pc' = "grade"
    /\ cli' = "grading"
    /\ UNCHANGED <<client, rubric, content, parsed_rubric, validation, failure, outputs,
                   response, outcome, max_variance_percent, grading_passes,
                   student_answer, strictness_mode, num_passes, pass_i, passes,
                   errors, final, audit, raised, system_prompt, user_prompt, calls,
                   completions>>

\* grade has returned: the report is generated and the audit record kept
CommandReport ==
    /\ cli = "grading"
    /\ pc = "done"
    /\ outputs' = [report |-> <<final, audit>>, audit_record |-> audit]
    /\ cli' = "done"
    /\ UNCHANGED <<client, rubric, content, parsed_rubric, validation, failure, engine,
                   passes_arg>>

\* grade has raised: the command ends with the exception
CommandFails ==
    /\ cli = "grading"
    /\ pc = "raised"
    /\ failure' = [class |-> raised.class, errors |-> <<>>]
    /\ cli' = "exit"
    /\ UNCHANGED <<client, rubric, content, parsed_rubric, validation, outputs, engine,
                   passes_arg>>

NextRubric ==
    \/ ConstructRubric
    \/ ParseRubric
    \/ Validate
    \/ ValidateOrRaise

NextCommand ==
    \/ ParseRubric
    \/ ValidateOrRaise
    \/ CommandGrade
    \/ GradeStart
    \/ PassOracleFails
    \/ PassCompletes
    \/ RaiseNoPasses
    \/ ReturnResult
    \/ CommandReport
    \/ CommandFails

SpecRubric == InitRubric /\ [][NextRubric]_vars

SpecCommand == InitCommand /\ [][NextCommand]_vars

(***************************************************************************)
(* LLMClient (src/grading/llm_client.py).  A call of generate is the loop  *)
(* of _call_with_retry: attempt is its index, api_calls what each call of  *)
(* chat.completions.create did, sleeps the delays slept, in seconds, and   *)
(* generated what generate ended with.                                     *)
(***************************************************************************)
_max_retries == 3
_base_delay == 1
_max_delay == 30

\* A delay that grows by the base delay with every attempt
LinearDelay(a) ==
    IF _base_delay * (a + 1) < _max_delay THEN _base_delay * (a + 1) ELSE _max_delay

\* _calculate_delay(attempt)
_calculate_delay(a) ==
    IF _base_delay * (2 ^ a) < _max_delay THEN _base_delay * (2 ^ a) ELSE _max_delay

\* What a call of chat.completions.create does: it returns a response, whose
\* content is a text, "" or None, or which has no choices; or it raises
ApiReturns(choices, text) ==
    [class |-> "", choices |-> choices, content |-> text, status_code |-> 200]
ApiRaises(class, status_code) ==
    [class |-> class, choices |-> 0, content |-> "", status_code |-> status_code]

None == "<None>"
Contents == {"{}", " ", "", None}
StatusCodes == {400, 404, 429, 500, 503}

\* A generate about to be called
InitClient ==
    /\ attempt = 0 /\ api_calls = <<>> /\ sleeps = <<>>
    /\ generated = Generated("running", "", FALSE)
    /\ rubric = NoRubric
    /\ passes_arg = 0 /\ grading_passes = DefaultGradingPasses
    /\ max_variance_percent = DefaultMaxVariance
    /\ student_answer = <<>> /\ strictness_mode = "proportional"
    /\ EngineAt("none") /\ NoCommand

\* The loop of _call_with_retry is at the call of attempt `attempt`
Calling == generated.kind = "running" /\ attempt <= _max_retries

\* raise LLMError(message, retryable=retryable) leaves generate
RaiseLLMError(retryable) ==
    /\ generated' = Generated("LLMError", "", retryable)
    /\ UNCHANGED <<attempt, sleeps>>

\* The handler that raises, at the last attempt, an LLMError that is not
\* flagged retryable
RetryOrRaiseUnflagged ==
    IF attempt < _max_retries
    THEN /\ sleeps' = Append(sleeps, _calculate_delay(attempt))
         /\ attempt' = attempt + 1
         /\ UNCHANGED generated
    ELSE RaiseLLMError(FALSE)

\* The handler of a failure that is retried: the delay is computed; before
\* the last attempt it is slept and the loop continues, at the last attempt
\* LLMError(retryable=True) is raised
RetryOrRaise ==
    IF attempt < _max_retries
    THEN /\ sleeps' = Append(sleeps, _calculate_delay(attempt))
         /\ attempt' = attempt + 1
         /\ UNCHANGED generated
    ELSE RaiseLLMError(TRUE)

\* create returns a response with a choice whose content is not empty: the
\* content is returned
CallCompletes ==
    /\ Calling
    /\ \E c \in Contents \ {"", None} :
          /\ api_calls' = Append(api_calls, ApiReturns(1, c))
          /\ generated' = Generated("returned", c, FALSE)
    /\ UNCHANGED <<attempt, sleeps, engine, command, rubric, passes_arg>>

\* A response without choices or without content taken for a failure to
\* retry
CallEmptyRetried ==
    /\ Calling
    /\ \E r \in {ApiReturns(0, None)} \cup {ApiReturns(1, c) : c \in {"", None}} :
          api_calls' = Append(api_calls, r)
    /\ RetryOrRaise
    /\ UNCHANGED <<engine, command, rubric, passes_arg>>

\* create returns a response without choices or without content: the
\* LLMError raised in the try block is caught by `except Exception` and
\* raised again as an LLMError that is not retryable
CallEmpty ==
    /\ Calling
    /\ \E r \in {ApiReturns(0, None)} \cup {ApiReturns(1, c) : c \in {"", None}} :
          api_calls' = Append(api_calls, r)
    /\ RaiseLLMError(FALSE)
    /\ UNCHANGED <<engine, command, rubric, passes_arg>>

\* create raises RateLimitError
CallRateLimited ==
    /\ Calling
    /\ api_calls' = Append(api_calls, ApiRaises("RateLimitError", 429))
    /\ RetryOrRaise
    /\ UNCHANGED <<engine, command, rubric, passes_arg>>

\* create raises APIConnectionError
CallConnectionFails ==
    /\ Calling
    /\ api_calls' = Append(api_calls, ApiRaises("APIConnectionError", 0))
    /\ RetryOrRaise
    /\ UNCHANGED <<engine, command, rubric, passes_arg>>

\* A status error handled as if every status were retried
CallStatusErrorRetried ==
    /\ Calling
    /\ \E code \in StatusCodes :
          api_calls' = Append(api_calls, ApiRaises("APIStatusError", code))
    /\ RetryOrRaise
    /\ UNCHANGED <<engine, command, rubric, passes_arg>>

\* create raises another APIStatusError: a 4xx status other than 429 is not
\* retried, any other status is
CallStatusError ==
    /\ Calling
    /\ \E code \in StatusCodes :
          /\ api_calls' = Append(api_calls, ApiRaises("APIStatusError", code))
          /\ IF 400 <= code /\ code < 500 /\ code # 429
             THEN RaiseLLMError(FALSE)
             ELSE RetryOrRaise
    /\ UNCHANGED <<engine, command, rubric, passes_arg>>

\* create raises any other Exception
CallUnexpected ==
    /\ Calling
    /\ api_calls' = Append(api_calls, ApiRaises("Exception", 0))
    /\ RaiseLLMError(FALSE)
    /\ UNCHANGED <<engine, command, rubric, passes_arg>>

NextClient ==
    \/ CallCompletes
    \/ CallEmpty
    \/ CallRateLimited
    \/ CallConnectionFails
    \/ CallStatusError
    \/ CallUnexpected

SpecClient == InitClient /\ [][NextClient]_vars

\* Every call of create returns or raises in the end, so the loop goes on
SpecClientLive == SpecClient /\ WF_vars(NextClient)

Init == InitParser \/ InitGrade \/ InitRubric \/ InitCommand \/ InitClient

Next ==
    \/ Parse
    \/ GradeStart
    \/ PassOracleFails
    \/ PassCompletes
    \/ RaiseNoPasses
    \/ ReturnResult
    \/ ConstructRubric
    \/ ParseRubric
    \/ Validate
    \/ ValidateOrRaise
    \/ CommandGrade
    \/ CommandReport
    \/ CommandFails
    \/ CallCompletes
    \/ CallEmpty
    \/ CallRateLimited
    \/ CallConnectionFails
    \/ CallStatusError
    \/ CallUnexpected

Spec == Init /\ [][Next]_vars

(***************************************************************************)
(* Properties.                                                             *)
(***************************************************************************)
Accepted == pc = "parsed" /\ outcome.kind = "GradingResult"

ReportedItems == response.criteria_results.items

InBounds(result) ==
    /\ \A k \in 1..Len(result.criteria_results) :
          /\ 0 <= result.criteria_results[k].awarded_points
          /\ result.criteria_results[k].awarded_points
                <= result.criteria_results[k].max_points
    /\ 0 <= total_awarded(result)
    /\ total_awarded(result) <= total_max(result)

\* C1: every GradingResult that parse returns, every result of a pass, and
\* every result that grade returns has 0 <= awarded_points <= max_points in
\* each criterion result and 0 <= total_awarded <= total_max.
C1_ResultsWithinBounds ==
    /\ Accepted => InBounds(outcome.result)
    /\ \A k \in 1..Len(passes) : InBounds(passes[k].result)
    /\ pc = "done" => InBounds(final)

\* parse accepted a result with a criterion at its maximum and one at zero
C1_Witness ==
    /\ Accepted
    /\ \E k \in 1..Len(outcome.result.criteria_results) :
          outcome.result.criteria_results[k].awarded_points
             = outcome.result.criteria_results[k].max_points
    /\ \E k \in 1..Len(outcome.result.criteria_results) :
          outcome.result.criteria_results[k].awarded_points = 0

\* C2: parse accepts a completion only if its list resolves to every rubric
\* criterion exactly once: an accepted result has as many criterion results
\* as the rubric has criteria, and each criterion of the rubric has exactly
\* one criterion result carrying its name.
C2_OneResultPerCriterion ==
    Accepted =>
        /\ Len(outcome.result.criteria_results) = Len(rubric.criteria)
        /\ \A c \in 1..Len(rubric.criteria) :
              Cardinality({k \in 1..Len(outcome.result.criteria_results) :
                             outcome.result.criteria_results[k].criterion_name
                                = rubric.criteria[c].name}) = 1

\* The completion with max_possible set to the rubric's total
WithRubricTotal(r) == [r EXCEPT !.max_possible = Num(total_max_points(rubric))]

\* C3: a completion whose max_possible differs from the rubric's
\* total_max_points is never accepted, and when the completion is acceptable
\* but for its max_possible, parse rejects it with a ScoringError.
C3_MaxPossibleMismatchRejected ==
    (pc = "parsed" /\ response.max_possible # Num(total_max_points(rubric))) =>
        /\ outcome.kind # "GradingResult"
        /\ parse(WithRubricTotal(response), rubric, 1).kind = "GradingResult"
              => outcome.kind = "ScoringError" /\ outcome.raw = response

\* parse rejected, for its max_possible alone, a completion that reports a
\* number other than the rubric's total
C3_Witness ==
    /\ pc = "parsed"
    /\ response.max_possible.t = "num"
    /\ response.max_possible.v # total_max_points(rubric)
    /\ parse(WithRubricTotal(response), rubric, 1).kind = "GradingResult"
    /\ outcome.kind = "ScoringError"
    /\ outcome.err = "Max possible mismatch"

(***************************************************************************)
(* The selection rule in exact arithmetic: totals are tenths, and the      *)
(* median and the distances to it are kept doubled to stay integers.       *)
(***************************************************************************)
Totals(ps) == [k \in 1..Len(ps) |-> ps[k].total_score]

SortedTotals(t) ==
    LET n       == Len(t)
        rank(k) == Cardinality({j \in 1..n : t[j] < t[k] \/ (t[j] = t[k] /\ j < k)}) + 1
    IN  [r \in 1..n |-> t[CHOOSE k \in 1..n : rank(k) = r]]

\* Twice the statistical median
Median2(t) ==
    LET data == SortedTotals(t)
        n    == Len(t)
    IN  IF n % 2 = 1 THEN 2 * data[(n + 1) \div 2]
        ELSE data[n \div 2] + data[(n \div 2) + 1]

Dist2(t, k) ==
    IF 2 * t[k] >= Median2(t) THEN 2 * t[k] - Median2(t) ELSE Median2(t) - 2 * t[k]

\* The earliest of the passes closest to the median
EarliestClosest(ps) ==
    LET t     == Totals(ps)
        least == {k \in 1..Len(ps) : \A j \in 1..Len(ps) : Dist2(t, k) <= Dist2(t, j)}
    IN  CHOOSE k \in least : \A j \in least : k <= j

MaxTotal(ps) == CHOOSE v \in {ps[k].total_score : k \in 1..Len(ps)} :
                    \A k \in 1..Len(ps) : ps[k].total_score <= v

MinTotal(ps) == CHOOSE v \in {ps[k].total_score : k \in 1..Len(ps)} :
                    \A k \in 1..Len(ps) : ps[k].total_score >= v

\* C4: when two or more passes succeeded, the result grade returns is that
\* of the pass whose total is closest to the median of the totals, the
\* earliest one among equally close passes.
C4_ClosestToMedianEarliest ==
    (pc = "done" /\ Len(passes) >= 2) =>
        final.submission_id = passes[EarliestClosest(passes)].result.submission_id

\* C5: variance_detected of the result grade returns is true exactly when at
\* least two passes succeeded and (max - min) / max_possible * 100 is
\* strictly greater than the threshold percent.
C5_VarianceAboveThreshold ==
    pc = "done" =>
        (final.variance_detected <=>
            /\ Len(passes) >= 2
            /\ 100 * (MaxTotal(passes) - MinTotal(passes))
                  > max_variance_percent * total_max_points(rubric))

\* C6: per-pass failures are absorbed: grade does not fail once a pass has
\* reconciled with the rubric, and it never ends before all of its passes
\* have run.
C6_FailedPassesAbsorbed ==
    pc = "raised" => (passes = <<>> /\ pass_i >= num_passes)

\* C7: when all N passes have failed, grade returns no result and no audit
\* record and raises the failure of the earliest pass; the generic failure
\* is raised only when there was no pass to fail.
C7_FirstFailureRaised ==
    (pc = "raised" /\ passes = <<>> /\ pass_i >= num_passes) =>
        /\ final = NoResult
        /\ audit = NoAudit
        /\ IF num_passes >= 1
           THEN raised.pass = 1
           ELSE raised.class = "LLMError" /\ raised.pass = 0 /\ errors = <<>>

\* C8: the parser substitutes no default score: in an accepted result each
\* criterion result has the awarded_points its entry reported, so an entry
\* without awarded_points, or with one that is no number, is never accepted.
C8_NoDefaultScore ==
    Accepted =>
        \A k \in 1..Len(ReportedItems) :
            /\ ReportedItems[k].awarded_points.t = "num"
            /\ outcome.result.criteria_results[k].awarded_points
                  = ReportedItems[k].awarded_points.v

\* C9: parse has two outcomes only: a GradingResult, or a ScoringError that
\* carries the raw completion; no exception of another class leaves it.
C9_ResultOrScoringError ==
    pc = "parsed" =>
        \/ outcome.kind = "GradingResult"
        \/ outcome.kind = "ScoringError" /\ outcome.raw = response

\* C10: each criterion result of an accepted result has the name and the
\* max_points of the rubric criterion its entry resolved to, and the total_max
\* of the result equals the total_max_points of the rubric.
C10_CanonicalNamesAndMax ==
    Accepted =>
        /\ \A k \in 1..Len(ReportedItems) :
              LET lookup == rubric_lookup(rubric)
                  c      == lookup[Resolve(ReportedItems[k].criterion, lookup)].criterion
              IN  /\ outcome.result.criteria_results[k].criterion_name = c.name
                  /\ outcome.result.criteria_results[k].max_points = c.max_points
        /\ total_max(outcome.result) = total_max_points(rubric)

\* The pass _select_result chose among the successful passes
SelectedPass == passes[_select_result(passes, max_variance_percent).selected].result

\* The result f is the pass result s but for the pass count and the flags, and
\* s is one of the passes ps
Verbatim(f, s, ps) ==
    /\ f.submission_id = s.submission_id
    /\ f.rubric_title = s.rubric_title
    /\ f.criteria_results = s.criteria_results
    /\ f.overall_feedback = s.overall_feedback
    /\ DOMAIN f = DOMAIN s
    /\ \E k \in 1..Len(ps) :
          [f EXCEPT !.llm_passes_used = 1, !.variance_detected = FALSE,
                    !.flagged_for_review = FALSE] = ps[k].result

\* C11: the result grade returns is one successful pass's result verbatim: its
\* submission_id, rubric_title, criteria_results and overall_feedback are
\* those of the selected pass, and it has no other content than the pass
\* count and the two flags; it is never a mix of several passes.
C11_SelectedPassVerbatim ==
    pc = "done" => Verbatim(final, SelectedPass, passes)

\* grade returned a later pass out of several with different scores, re-stamped
C11_Witness ==
    /\ pc = "done"
    /\ Len(passes) >= 2
    /\ final.submission_id # passes[1].result.submission_id
    /\ final.criteria_results # passes[1].result.criteria_results
    /\ final.llm_passes_used # SelectedPass.llm_passes_used
    /\ final.variance_detected

\* C12: llm_passes_used of the result grade returns, and passes_count of the
\* audit record, equal the number of passes that contributed a result to the
\* selection, also when some of the requested passes failed.
C12_ActualPassCount ==
    pc = "done" =>
        /\ final.llm_passes_used = Len(passes)
        /\ audit.passes_count = Len(passes)

\* C13: in every result grade returns, flagged_for_review equals
\* variance_detected.
C13_FlaggedIffVariance ==
    pc = "done" => (final.flagged_for_review <=> final.variance_detected)

\* grade returned a flagged result, after several passes that differ by more
\* than the threshold
C13_Witness ==
    /\ pc = "done"
    /\ Len(passes) >= 2
    /\ final.variance_detected
    /\ final.flagged_for_review

\* grade has ended
Ended == pc \in {"done", "raised"}

\* C14: for a request with pass count N, grade builds the prompts once and
\* calls the oracle exactly N times, each time with the same system prompt,
\* user prompt and temperature; whether a pass succeeded or failed never
\* changes whether a later pass is run.
C14_ExactlyNIdenticalCalls ==
    (Ended /\ num_passes >= 1) =>
        /\ Len(calls) = num_passes
        /\ \A k \in 1..Len(calls) :
              calls[k] = Generate(SYSTEM_PROMPT,
                                  build_grading_prompt(rubric, student_answer,
                                                       strictness_mode),
                                  llm_temperature)

\* C15: an audit record exists only once grade has returned, after all of
\* its passes have run and the final result was selected and re-stamped; its
\* result_hash and passes_count describe that final result; a request that
\* returns has one, and a request that fails has none.
C15_AuditAfterAllPasses ==
    /\ audit # NoAudit =>
          /\ pc = "done"
          /\ pass_i = num_passes
          /\ Len(calls) = num_passes
          /\ final # NoResult
          /\ audit.result_hash = compute_hash(result_content(final))
          /\ audit.passes_count = final.llm_passes_used
    /\ pc = "done" => audit # NoAudit
    /\ pc = "raised" => audit = NoAudit

\* grade returned with an audit record after several passes, one of them failed
C15_Witness ==
    /\ pc = "done"
    /\ audit # NoAudit
    /\ num_passes >= 2
    /\ errors # <<>>
    /\ audit.passes_count = num_passes

\* AuditTrail.verify: both input hashes recomputed and compared with the
\* stored ones
verify(record, rubric_content_given, answer_content) ==
    /\ compute_hash(rubric_content_given) = record.rubric_hash
    /\ compute_hash(answer_content) = record.answer_hash

\* The rubric canonicalized as the title line plus one line
\* "name: max_points - description" per criterion
CanonicalRubricText(r) ==
    <<r.title, "\n">>
    \o JoinLines([k \in 1..Len(r.criteria) |->
                    r.criteria[k].name \o <<": ">> \o DecimalStr(r.criteria[k].max_points)
                    \o <<" - ">> \o r.criteria[k].description], 1)

\* Rubric texts other than the canonical one of r: those of the other rubrics,
\* the text with its last character dropped or doubled, and another text
ChangedRubricTexts(r) ==
    LET t == CanonicalRubricText(r)
    IN  ({CanonicalRubricText(q) : q \in EngineRubrics \cup Rubrics}
         \cup {SubSeq(t, 1, Len(t) - 1), Append(t, t[Len(t)]), <<"different rubric">>})
        \ {t}

\* Answer texts other than a: the other answers, a with its last word dropped
\* or doubled, and another text
ChangedAnswers(a) ==
    (Answers \cup {SubSeq(a, 1, Len(a) - 1), Append(a, a[Len(a)]), <<"different answer">>})
    \ {a}

\* C16: for a record produced by grade, verify with the canonical text of the
\* same rubric and the same answer returns true, and with either input
\* changed alone it returns false.
C16_VerifyMatchesBothHashes ==
    pc = "done" =>
        /\ verify(audit, CanonicalRubricText(rubric), student_answer)
        /\ \A t \in ChangedRubricTexts(rubric) : ~verify(audit, t, student_answer)
        /\ \A a \in ChangedAnswers(student_answer) :
              ~verify(audit, CanonicalRubricText(rubric), a)

\* grade returned a record whose three hashes differ from each other
C16_Witness ==
    /\ pc = "done"
    /\ audit.rubric_hash = compute_hash(CanonicalRubricText(rubric))
    /\ audit.answer_hash = compute_hash(student_answer)
    /\ audit.rubric_hash # audit.answer_hash
    /\ audit.result_hash # audit.rubric_hash
\* C17: in the grade command the oracle is called, and the engine entered,
\* only with the Rubric that parse returned and after validate_or_raise has
\* passed, so that the rubric graded has no issue; and once parsing has failed
\* or validate_or_raise has found an issue, no pass has run, no oracle call
\* was made, and no result, audit record or report exists.
C17_RubricGatesGrading ==
    /\ (calls # <<>> \/ pc # "idle") =>
          /\ parsed_rubric.kind = "Rubric"
          /\ rubric = parsed_rubric.rubric
          /\ validation.called /\ validation.is_valid
          /\ Issues(rubric) = <<>>
    /\ (\/ cli # "start" /\ parsed_rubric.kind # "Rubric"
        \/ validation.called /\ ~validation.is_valid) =>
          /\ calls = <<>> /\ pass_i = 0 /\ passes = <<>>
          /\ final = NoResult /\ audit = NoAudit /\ outputs = NoOutputs

\* A command that validate_or_raise has ended: the rubric parsed, an issue was
\* found, and nothing was graded
C17_Witness ==
    /\ cli = "exit"
    /\ parsed_rubric.kind = "Rubric"
    /\ failure.class = "RubricValidationError"
    /\ calls = <<>> /\ outputs = NoOutputs


\* C18: whenever a Rubric has been constructed, directly or by the parser, no
\* two of its criteria have names that are equal ignoring case.
C18_NamesDistinctIgnoringCase ==
    parsed_rubric.kind = "Rubric" =>
        \A i, j \in 1..Len(parsed_rubric.rubric.criteria) :
            i # j => Lower(parsed_rubric.rubric.criteria[i].name)
                     # Lower(parsed_rubric.rubric.criteria[j].name)

C20_ParserRoundTrip ==
    \A l \in CriteriaLists, f \in Formats :
        (/\ cli \notin {"start", "construct"}
         /\ content = Encode(l, f)
         /\ validate_no_duplicate_names(l)) =>
            /\ parsed_rubric.kind = "Rubric"
            /\ parsed_rubric.rubric.criteria = l

\* The title the priority of the specification gives: the text of the first
\* heading line; without a heading the first line shorter than
\* TitleLineLimit that is not criterion-shaped and has none of | - : ;
\* without either the fallback
IsHeadingLine(line) == StartsWith(Strip(line), <<"#">>)

IsPlainTitleLine(line) ==
    /\ Strip(line) # <<>>
    /\ ~LooksLikeCriterion(Strip(line))
    /\ Len(Strip(line)) < TitleLineLimit
    /\ \A k \in DOMAIN Strip(line) : Strip(line)[k] \notin {"|", "-", ":"}

TitleByPriority(lines, fallback) ==
    IF \E i \in DOMAIN lines : IsHeadingLine(lines[i])
    THEN LET i == CHOOSE i \in DOMAIN lines :
                      /\ IsHeadingLine(lines[i])
                      /\ \A j \in 1..(i - 1) : ~IsHeadingLine(lines[j])
         IN Strip(LStripHashes(Strip(lines[i])))
    ELSE IF \E i \in DOMAIN lines : IsPlainTitleLine(lines[i])
    THEN LET i == CHOOSE i \in DOMAIN lines :
                      /\ IsPlainTitleLine(lines[i])
                      /\ \A j \in 1..(i - 1) : ~IsPlainTitleLine(lines[j])
         IN Strip(lines[i])
    ELSE fallback

\* C21: the title of a parsed rubric is the text of the first heading line of
\* the content; without a heading it is the first short line that is not
\* criterion-shaped and has none of | - : ; without either it is the
\* fallback title the caller gave.
C21_TitleByPriority ==
    (/\ cli \notin {"start", "construct"}
     /\ content # <<>>
     /\ parsed_rubric.kind = "Rubric") =>
        parsed_rubric.rubric.title = TitleByPriority(StrippedLines(content), GradingRubric)

\* A line that none of the four formats matches, and a content without
\* such lines
Unmatched(line) ==
    /\ ~Skipped(Strip(line))
    /\ TryFormats(Strip(line), 1).kind = "none"

Matched(line) == ~Unmatched(line)

WithoutUnmatched(lines) == SelectSeq(lines, Matched)

C28_HighTotalOnlyWarns ==
    (/\ validation.called
     /\ validation.issues # <<>>
     /\ \A i \in DOMAIN validation.issues :
            validation.issues[i].check = "Total points is unusually high") =>
        /\ total_max_points(rubric) > 10000
        /\ validation.is_valid

\* The completions the order of the checks is stated for: the JSON object is
\* found and decoded, criteria_results is a list or is missing, every entry
\* is an object with a name and with points that are a number or are left
\* out, and the reported total and maximum are numbers or are missing
Listed(r) ==
    /\ ExtractText(r.text).err = ""
    /\ JsonLoads(ExtractText(r.text).json) = "object"
    /\ r.criteria_results.t \in {"list", "absent"}
    /\ r.total_score.t \in {"num", "absent"}
    /\ r.max_possible.t \in {"num", "absent"}
    /\ \A i \in DOMAIN r.criteria_results.items :
           /\ r.criteria_results.items[i].obj
           /\ r.criteria_results.items[i].criterion # <<>>
           /\ r.criteria_results.items[i].awarded_points.t \in {"num", "absent"}

\* The checks of one entry, each stated by itself
EntryUnknown(items, i, lookup) == Resolve(items[i].criterion, lookup) = 0

EntryDuplicate(items, i, lookup) ==
    \E j \in 1..(i - 1) :
        Resolve(items[j].criterion, lookup) = Resolve(items[i].criterion, lookup)

EntryPoints(items, i) ==
    IF items[i].awarded_points.t = "absent" THEN 0 ELSE items[i].awarded_points.v

EntryAboveMax(items, i, lookup) ==
    EntryPoints(items, i) > lookup[Resolve(items[i].criterion, lookup)].criterion.max_points

\* The first check an entry violates in the order unknown name, duplicate,
\* negative points, points above the maximum, missing justification
EntryViolation(items, i, lookup) ==
    IF EntryUnknown(items, i, lookup) THEN "Unknown criterion"
    ELSE IF EntryDuplicate(items, i, lookup) THEN "Duplicate criterion"
    ELSE IF EntryPoints(items, i) < 0 THEN "Negative points"
    ELSE IF EntryAboveMax(items, i, lookup) THEN "Points exceed max"
    ELSE IF items[i].justification = "" THEN "Missing justification"
    ELSE ""

\* Some criterion of the rubric has no entry in the list
Incomplete(items, lookup) ==
    \E k \in DOMAIN lookup :
        \A i \in DOMAIN items : Resolve(items[i].criterion, lookup) # k

\* The first violated check of a completion in the order: top-level fields,
\* entries in list order, completeness, max_possible
FirstViolation(r, rb) ==
    IF \/ r.total_score.t = "absent" \/ r.max_possible.t = "absent"
       \/ r.criteria_results.t = "absent" \/ r.overall_feedback = NoKey
    THEN "Missing required field"
    ELSE IF \E i \in DOMAIN r.criteria_results.items :
               EntryViolation(r.criteria_results.items, i, rubric_lookup(rb)) # ""
    THEN EntryViolation(r.criteria_results.items,
                        CHOOSE i \in DOMAIN r.criteria_results.items :
                            /\ EntryViolation(r.criteria_results.items, i, rubric_lookup(rb)) # ""
                            /\ \A j \in 1..(i - 1) :
                                   EntryViolation(r.criteria_results.items, j,
                                                  rubric_lookup(rb)) = "",
                        rubric_lookup(rb))
    ELSE IF Incomplete(r.criteria_results.items, rubric_lookup(rb))
    THEN "Missing scores for criteria"
    ELSE IF r.max_possible.v # total_max_points(rb) THEN "Max possible mismatch"
    ELSE ""

OrderedChecks ==
    {"Unknown criterion", "Duplicate criterion", "Negative points", "Points exceed max",
     "Missing justification", "Missing scores for criteria", "Max possible mismatch"}

\* C27: the parser raises for the first violated check in the order: a
\* missing top-level field; then, entry by entry in the order of the list,
\* unknown name, duplicate, negative points, points above the maximum,
\* missing justification; then a criterion without an entry; then
\* max_possible against the total of the rubric.  Without a violation none
\* of these errors is raised.
C27_FirstViolatedCheckReported ==
    (pc = "parsed" /\ Listed(response)) =>
        IF FirstViolation(response, rubric) = "Missing required field"
        THEN /\ outcome.kind = "ScoringError"
             /\ outcome.err \in {"Missing required field: " \o f :
                                    f \in {"total_score", "max_possible",
                                           "criteria_results", "overall_feedback"}}
        ELSE IF FirstViolation(response, rubric) # ""
        THEN outcome.kind = "ScoringError" /\ outcome.err = FirstViolation(response, rubric)
        ELSE outcome.err \notin OrderedChecks

\* An entry with an unknown name or with points above the maximum is what
\* the parser reports although a criterion has no entry and max_possible is
\* wrong too
C27_Witness ==
    /\ pc = "parsed" /\ Listed(response)
    /\ outcome.err \in {"Points exceed max", "Unknown criterion"}
    /\ Incomplete(response.criteria_results.items, rubric_lookup(rubric))
    /\ response.max_possible.t = "num"
    /\ response.max_possible.v # total_max_points(rubric)

\* The passes _perform_passes has for a sequence of completions: the results
\* the parser gives for the rubric, in the order of the passes
AcceptedPasses(rb, cs) ==
    LET ok(k) == /\ cs[k].class = ""
                 /\ parse(cs[k].response, rb, k).kind = "GradingResult"
        idx   == SelectSeq([k \in 1..Len(cs) |-> k], ok)
    IN  SubSeq([j \in 1..Len(idx) |->
                   GradingPass(parse(cs[idx[j]].response, rb, idx[j]).result)],
               1, Len(idx))

\* C25: the strictness mode has no part in what grade accepts and returns:
\* in hard_fail mode as in proportional mode the passes kept are exactly the
\* completions the result parser accepts for the rubric, and the result
\* returned (scores, total, flags) is the selection among them, a function
\* of the rubric, the completions, the pass count and the threshold alone.
C25_StrictnessOnlyInPrompt ==
    (pc \in {"passes", "done", "raised"}) =>
        /\ passes = AcceptedPasses(rubric, completions)
        /\ pc = "done" =>
               final = FinalResult(AcceptedPasses(rubric, completions), num_passes,
                                   max_variance_percent)

\* A result returned in hard_fail mode with partial credit for a criterion
C25_Witness ==
    /\ pc = "done"
    /\ strictness_mode = "hard_fail"
    /\ \E k \in DOMAIN final.criteria_results :
           /\ final.criteria_results[k].awarded_points > 0
           /\ final.criteria_results[k].awarded_points < final.criteria_results[k].max_points

\* C26: grade runs the oracle only for a pass count within the bounds of the
\* configuration, 1 to 5, whether the count is the configured one or the
\* passes override, and so never calls the oracle more than five times.
C26_PassCountWithinLimits ==
    (pc \in {"passes", "done", "raised"} /\ calls # <<>>) =>
        /\ num_passes \in MinGradingPasses..MaxGradingPasses
        /\ Len(calls) <= MaxGradingPasses

\* The failures the client is to retry: rate limit, connection failure and
\* 5xx status; and the 4xx statuses other than the rate limit
RetryableFailure(call) ==
    \/ call.class \in {"RateLimitError", "APIConnectionError"}
    \/ call.class = "APIStatusError" /\ (call.status_code >= 500 \/ call.status_code = 429)

ClientError(call) ==
    /\ call.class = "APIStatusError"
    /\ call.status_code >= 400 /\ call.status_code < 500 /\ call.status_code # 429

\* A response that carries no text: no choices, or a content that is None
\* or empty
EmptyCompletion(call) ==
    call.class = "" /\ (call.choices = 0 \/ call.content \in {"", None})

\* C23: only retryable failures (rate limit, connection failure, 5xx status)
\* are followed by another API call; a 4xx status other than the rate limit
\* is the last call of generate, which ends with an LLMError whose retryable
\* flag is false.
C23_OnlyRetryableRetried ==
    \A i \in DOMAIN api_calls :
        /\ i < Len(api_calls) => RetryableFailure(api_calls[i])
        /\ ClientError(api_calls[i]) =>
               /\ i = Len(api_calls)
               /\ generated = Generated("LLMError", "", FALSE)

\* A client error met at the second attempt, after a retried failure
C23_Witness ==
    /\ Len(api_calls) = 2
    /\ RetryableFailure(api_calls[1])
    /\ ClientError(api_calls[2])
    /\ generated = Generated("LLMError", "", FALSE)

\* What C24 says of every state of a call of generate
AttemptsBounded ==
    /\ Len(api_calls) <= _max_retries + 1
    /\ Len(api_calls) = _max_retries + 1 => generated.kind # "running"
    /\ \A i \in DOMAIN api_calls :
           (api_calls[i].class = "" /\ ~EmptyCompletion(api_calls[i])) =>
               /\ i = Len(api_calls)
               /\ generated = Generated("returned", api_calls[i].content, FALSE)
    /\ (/\ Len(api_calls) = _max_retries + 1
        /\ \A i \in DOMAIN api_calls : RetryableFailure(api_calls[i])) =>
           generated = Generated("LLMError", "", TRUE)

\* C24: generate ends, after at most 4 API attempts (1 + 3 retries): the
\* first attempt that succeeds is the last call and its completion is what
\* generate returns, and when all 4 attempts fail with retryable errors
\* generate raises an LLMError whose retryable flag is true.
C24_TerminatesWithinAttempts ==
    []AttemptsBounded /\ <>(generated.kind # "running")

\* The fourth attempt has failed with a retryable error like the three
\* before it
C24_Witness ==
    /\ Len(api_calls) = _max_retries + 1
    /\ \A i \in DOMAIN api_calls : RetryableFailure(api_calls[i])
    /\ generated.kind = "LLMError"

\* C29: before attempt k + 1 (k = 0, 1, 2) the client has slept
\* min(base_delay * 2^k, max_delay) seconds after the k-th failed attempt,
\* that is 1, 2, 4: the delays never decrease, never exceed the ceiling,
\* there is one per retry and none after the final attempt.
C29_BackoffDelays ==
    /\ Len(sleeps) = attempt
    /\ Len(sleeps) <= _max_retries
    /\ sleeps = SubSeq(<<1, 2, 4>>, 1, Len(sleeps))
    /\ \A k \in DOMAIN sleeps :
           /\ sleeps[k] <= _max_delay
           /\ k > 1 => sleeps[k - 1] <= sleeps[k]
    /\ generated.kind # "running" => Len(sleeps) = Len(api_calls) - 1

\* All four attempts failed with retryable errors: three delays were slept
C29_Witness ==
    /\ generated = Generated("LLMError", "", TRUE)
    /\ Len(api_calls) = _max_retries + 1
    /\ sleeps = <<1, 2, 4>>

\* C30: generate returns a text that is not empty or raises an LLMError;
\* a response without text is never returned, is the last call of generate
\* (it is not retried) and ends it with an LLMError whose retryable flag is
\* false; whatever create raises, nothing but an LLMError leaves generate.
C30_TextOrLLMError ==
    /\ generated.kind \in {"running", "returned", "LLMError"}
    /\ generated.kind = "returned" => generated.text \notin {"", None}
    /\ generated.kind # "running" => api_calls # <<>>
    /\ \A i \in DOMAIN api_calls :
           /\ EmptyCompletion(api_calls[i]) =>
                  /\ i = Len(api_calls)
                  /\ generated = Generated("LLMError", "", FALSE)
           /\ api_calls[i].class = "Exception" =>
                  /\ i = Len(api_calls)
                  /\ generated = Generated("LLMError", "", FALSE)

\* A response without content received at the second attempt
C30_Witness ==
    /\ Len(api_calls) = 2
    /\ EmptyCompletion(api_calls[2])
    /\ generated = Generated("LLMError", "", FALSE)

====
